---- MODULE Spec2Model ----
(***************************************************************************)
(* Model of autoscene's procedural-generation path: the engine facade      *)
(* executeProceduralCode (static validation, sandbox worker, timeout,      *)
(* output validation, layer ids) and the chat manager's tool-call handler  *)
(* that owns the layer store (active layers, layer metadata, scene         *)
(* layers, pending layers, layers atom).                                   *)
(*                                                                         *)
(* One action is one browser task together with the promise continuations  *)
(* (microtasks) it schedules: a settled promise's await continuation runs  *)
(* at the microtask checkpoint of the same task, before any other task.    *)
(***************************************************************************)
EXTENDS Integers, Sequences, FiniteSets, TLC

\* ------------------------------------------------------------------ bounds

\* Number of generate_3d_points tool calls a behaviour may start.
MaxCalls == 2

\* ------------------------------------------------------------- float values

\* A Float32 value.  A finite value F(n) stands for the number n/2 (so that the
\* midpoint of two whole numbers is representable); v of a non-finite value is
\* 0 for NaN, 1 for +Infinity, -1 for -Infinity.
F(n) == [fin |-> TRUE, v |-> n]
Num(k) == F(k + k)
NaN == [fin |-> FALSE, v |-> 0]
PosInf == [fin |-> FALSE, v |-> 1]
NegInf == [fin |-> FALSE, v |-> -1]

\* Number.isFinite
IsFinite(x) == x.fin

\* IEEE-754 a < b : false whenever either side is NaN.
Lt(a, b) ==
    IF a = NaN \/ b = NaN THEN FALSE
    ELSE IF a.fin /\ b.fin THEN a.v < b.v
    ELSE IF a.fin THEN b = PosInf
    ELSE IF b.fin THEN a = NegInf
    ELSE a = NegInf /\ b = PosInf

Abs(n) == IF n < 0 THEN -n ELSE n

\* Mid that returns its first argument.
MidLow(a, b) == a

\* (a + b) / 2 on floats.  The position values of the programs are whole
\* numbers, an even count of halves, so the half of a sum is exact.
Mid(a, b) ==
    IF a.fin /\ b.fin THEN F((a.v + b.v) \div 2)
    ELSE IF a = NaN \/ b = NaN THEN NaN
    ELSE IF a.fin THEN b
    ELSE IF b.fin THEN a
    ELSE IF a = b THEN a ELSE NaN

\* ------------------------------------------------------------ static validator

\* A string is a tuple of one-character strings.
StartsWith(s, pre) == Len(s) >= Len(pre) /\ SubSeq(s, 1, Len(pre)) = pre

BLOCKED_IDENTIFIERS ==
    { "fetch", "XMLHttpRequest", "Worker", "eval", "Function", "import",
      "require", "globalThis", "window", "document", "self", "postMessage",
      "importScripts", "SharedArrayBuffer", "Atomics", "WebSocket",
      "EventSource", "navigator", "location", "localStorage", "sessionStorage",
      "indexedDB", "crypto", "setTimeout", "setInterval",
      "requestAnimationFrame" }

MAX_AST_DEPTH == 64

\* /^data:|^blob:|^https?:/.test(value)
UrlLiteral(value) ==
    \/ StartsWith(value, <<"d", "a", "t", "a", ":">>)
    \/ StartsWith(value, <<"b", "l", "o", "b", ":">>)
    \/ StartsWith(value, <<"h", "t", "t", "p", ":">>)
    \/ StartsWith(value, <<"h", "t", "t", "p", "s", ":">>)

\* Visit without the check for import expressions.
VisitNoImport(node) ==
    IF node.depth > MAX_AST_DEPTH THEN "depth"
    ELSE IF node.type = "Literal" /\ node.isString /\ UrlLiteral(node.value)
        THEN "url"
    ELSE IF node.type = "Identifier" /\ node.name \in BLOCKED_IDENTIFIERS
        THEN "blocked"
    ELSE ""

\* The visit callback of validateCode on one node: "" when the node is allowed,
\* otherwise the violation.  Later checks overwrite earlier ones, as in the code.
Visit(node) ==
    IF node.depth > MAX_AST_DEPTH THEN "depth"
    ELSE IF node.type = "ImportExpression" THEN "import"
    ELSE IF node.type = "Literal" /\ node.isString /\ UrlLiteral(node.value)
        THEN "url"
    ELSE IF node.type = "Identifier" /\ node.name \in BLOCKED_IDENTIFIERS
        THEN "blocked"
    ELSE ""

\* walkAst: the nodes of the tree in visiting (pre-)order, each with its depth;
\* the first violation stops the checks.
RECURSIVE WalkAst(_, _)
WalkAst(nodes, i) ==
    IF i > Len(nodes) THEN ""
    ELSE IF Visit(nodes[i]) # "" THEN Visit(nodes[i])
    ELSE WalkAst(nodes, i + 1)

\* validateCode: acorn.parse throws on a syntax error; otherwise walk the tree.
validateCode(code) ==
    IF ~code.parses THEN [valid |-> FALSE, error |-> "syntax"]
    ELSE IF WalkAst(code.nodes, 1) # ""
        THEN [valid |-> FALSE, error |-> WalkAst(code.nodes, 1)]
    ELSE [valid |-> TRUE, error |-> ""]

\* ------------------------------------------------------------ sandbox worker

\* Lines that `new Function(args..., code)` puts before the first line of the
\* user code in the function it compiles ("function anonymous(args" and ") {"):
\* line k of the user code is line k + FunctionPrologueLines of a stack frame.
FunctionPrologueLines == 2

\* Initial capacity of the mesh buffers, in vertices.
InitialMeshCap == 300000

Zero3 == <<F(0), F(0), F(0)>>
Zero9 == Zero3 \o Zero3 \o Zero3

\* The worker's mesh buffers after self.onmessage's reset.  The three parallel
\* Float32Arrays are kept as one sequence of runs; a run [p, rgb, nrm, n] is n
\* consecutive triangles with the same nine position values p, the colour rgb
\* on each vertex and the nine normal values nrm.
FreshMesh ==
    [ meshCap |-> InitialMeshCap, meshCount |-> 0, tris |-> <<>>,
      hasCustomNormals |-> FALSE ]

\* GrowMesh that never reallocates the buffers.
GrowMeshNever(cap, count) == cap

\* _growMesh, as often as the n emits of a run call it: each emit grows once
\* when _meshCount + 3 > _meshCap.
RECURSIVE GrowMesh(_, _)
GrowMesh(cap, count) ==
    IF count > cap THEN GrowMesh(cap * 2, count) ELSE cap

\* emitTriangle, called n times with the same arguments: the normals buffer
\* keeps the zeros it was allocated with.
emitTriangle(m, p, rgb, n) ==
    [ meshCap |-> GrowMesh(m.meshCap, m.meshCount + 3 * n),
      meshCount |-> m.meshCount + 3 * n,
      tris |-> Append(m.tris, [p |-> p, rgb |-> rgb, nrm |-> Zero9, n |-> n]),
      hasCustomNormals |-> m.hasCustomNormals ]

\* emitQuad: emitTriangle on corners 1, 2, 3 and then on corners 1, 3, 4.
emitQuad(m, p, p4, rgb) ==
    emitTriangle(emitTriangle(m, p, rgb, 1),
                 SubSeq(p, 1, 3) \o SubSeq(p, 7, 9) \o p4, rgb, 1)

\* _emitSmoothTriangle, called n times with the same arguments.
emitSmoothTriangle(m, p, nrm, rgb, n) ==
    [ meshCap |-> GrowMesh(m.meshCap, m.meshCount + 3 * n),
      meshCount |-> m.meshCount + 3 * n,
      tris |-> Append(m.tris, [p |-> p, rgb |-> rgb, nrm |-> nrm, n |-> n]),
      hasCustomNormals |-> TRUE ]

\* fn(...): the statements of the user code in order.  The result is "done"
\* with the mesh, "threw" with the statement that threw and the mesh so far,
\* or "hang" when the code never returns.
RECURSIVE RunBody(_, _, _)
RunBody(body, i, m) ==
    IF i > Len(body) THEN [end |-> "done", at |-> 0, mesh |-> m]
    ELSE LET st == body[i] IN
        CASE st.op = "emitTriangle" ->
                RunBody(body, i + 1, emitTriangle(m, st.p, st.rgb, st.n))
          [] st.op = "emitQuad" ->
                RunBody(body, i + 1, emitQuad(m, st.p, st.p4, st.rgb))
          [] st.op = "emitSmoothTriangle" ->
                RunBody(body, i + 1,
                        emitSmoothTriangle(m, st.p, st.nrm, st.rgb, st.n))
          [] st.op = "throw" -> [end |-> "threw", at |-> i, mesh |-> m]
          [] st.op = "loop" -> [end |-> "hang", at |-> i, mesh |-> m]

NoStack == [matches |-> FALSE, line |-> 0]

NoArrays == [positions |-> 0, colors |-> 0, normals |-> 0]

\* The lengths of the three arrays the worker drains: slice(0, _meshCount * 3)
\* of a Float32Array of _meshCap * 3 values.
DrainLengths(m) ==
    LET len == IF 3 * m.meshCount < 3 * m.meshCap
               THEN 3 * m.meshCount ELSE 3 * m.meshCap
    IN [positions |-> len, colors |-> len, normals |-> len]

\* The catch block of self.onmessage for the value thrown by statement st.
\* err.message and err.stack exist on Error objects only; a stack names the
\* frame of the user code as <anonymous>:line:col on engines with V8's stack
\* format (v8Stack).  A thrown null or undefined makes err.message itself
\* throw, and that exception leaves the handler uncaught.
CatchBlock(st, m, v8Stack) ==
    CASE st.value = "Error" ->
            [ type |-> "message", error |-> TRUE,
              message |-> IF st.message = "" THEN "Unknown runtime error"
                          ELSE st.message,
              stack |-> IF v8Stack
                        THEN [matches |-> TRUE,
                              line |-> st.line + FunctionPrologueLines]
                        ELSE NoStack,
              meshVertexCount |-> m.meshCount,
              tris |-> <<>>, hasCustomNormals |-> FALSE,
              lengths |-> NoArrays ]
      [] st.value = "String" ->
            [ type |-> "message", error |-> TRUE,
              message |-> "Unknown runtime error", stack |-> NoStack,
              meshVertexCount |-> m.meshCount,
              tris |-> <<>>, hasCustomNormals |-> FALSE,
              lengths |-> NoArrays ]
      [] st.value = "Null" ->
            [ type |-> "error", error |-> TRUE,
              message |-> "Uncaught TypeError", stack |-> NoStack,
              meshVertexCount |-> 0,
              tris |-> <<>>, hasCustomNormals |-> FALSE,
              lengths |-> NoArrays ]

NoEvent ==
    [ type |-> "none", error |-> FALSE, message |-> "", stack |-> NoStack,
      meshVertexCount |-> 0, tris |-> <<>>, hasCustomNormals |-> FALSE,
      lengths |-> NoArrays ]

\* self.onmessage: reset the buffers, run the code, and post either the
\* structured error or the drained buffers (the first _meshCount vertices).
\* The result is the event the Worker object receives: a message, an error
\* event, or nothing while the code hangs.
WorkerOnMessage(code, v8Stack) ==
    LET r == RunBody(code.body, 1, FreshMesh) IN
    CASE r.end = "threw" -> CatchBlock(code.body[r.at], r.mesh, v8Stack)
      [] r.end = "hang" -> NoEvent
      [] r.end = "done" ->
            [ type |-> "message", error |-> FALSE, message |-> "",
              stack |-> NoStack,
              meshVertexCount |-> r.mesh.meshCount,
              tris |-> r.mesh.tris,
              hasCustomNormals |-> r.mesh.hasCustomNormals,
              lengths |-> DrainLengths(r.mesh) ]

\* ------------------------------------------------------------ lathe

\* Math.cos and Math.sin of k sixteenths of a turn, in halves, rounded to the
\* grid of the float values (at the quarter turns the rounding is below 1e-15).
CosTable == <<2, 2, 1, 1, 0, -1, -1, -2, -2, -2, -1, -1, 0, 1, 1, 2>>
Cos16(k) == CosTable[(k % 16) + 1]
Sin16(k) == Cos16(k + 12)

\* segments = segments || 16
DefaultSegments == 16
Segments(segments) == IF segments = 0 THEN DefaultSegments ELSE segments

\* The triangle runs the sequences of `parts` hold, in order.
RECURSIVE Flatten(_, _)
Flatten(parts, i) ==
    IF i > Len(parts) THEN <<>> ELSE parts[i] \o Flatten(parts, i + 1)

\* The mesh m after the emit calls that append the triangle runs `runs`, one
\* triangle each: _meshCount advances by 3 per triangle and the buffers grow
\* as emitTriangle grows them.
EmitAll(m, runs) ==
    [ meshCap |-> GrowMesh(m.meshCap, m.meshCount + 3 * Len(runs)),
      meshCount |-> m.meshCount + 3 * Len(runs),
      tris |-> m.tris \o runs,
      hasCustomNormals |-> m.hasCustomNormals ]

\* One step of lathe's inner loop, as the triangles its emit call appends:
\* profile pair p (from 1), angular step s (from 0).  The centre c, the radii
\* and the heights are whole numbers; angleOffset is left at its default 0,
\* and segments divides 16.
LatheStep(c, profile, segments, p, s, rgb) ==
    LET r0 == profile[p][1]
        y0 == Num(c[2] + profile[p][2])
        r1 == profile[p + 1][1]
        y1 == Num(c[2] + profile[p + 1][2])
        a0 == (16 \div segments) * s
        a1 == (16 \div segments) * (s + 1)
        cx == Num(c[1])
        cz == Num(c[3])
        bx0 == F(2 * c[1] + r0 * Cos16(a0))
        bz0 == F(2 * c[3] + r0 * Sin16(a0))
        bx1 == F(2 * c[1] + r0 * Cos16(a1))
        bz1 == F(2 * c[3] + r0 * Sin16(a1))
        tx0 == F(2 * c[1] + r1 * Cos16(a0))
        tz0 == F(2 * c[3] + r1 * Sin16(a0))
        tx1 == F(2 * c[1] + r1 * Cos16(a1))
        tz1 == F(2 * c[3] + r1 * Sin16(a1))
    IN IF r0 = 0
       THEN emitTriangle(FreshMesh,
                         <<cx, y0, cz, tx1, y1, tz1, tx0, y1, tz0>>, rgb, 1).tris
       ELSE IF r1 = 0
       THEN emitTriangle(FreshMesh,
                         <<bx0, y0, bz0, bx1, y0, bz1, cx, y1, cz>>, rgb, 1).tris
       ELSE emitQuad(FreshMesh, <<bx0, y0, bz0, bx1, y0, bz1, tx1, y1, tz1>>,
                     <<tx0, y1, tz0>>, rgb).tris

\* lathe(cx,cy,cz, profile, segments, r,g,b) on the mesh m: the steps of the
\* two loops in order, p outermost.
lathe(m, c, profile, segments, rgb) ==
    IF Len(profile) < 2 THEN m
    ELSE LET S == Segments(segments)
             steps == [i \in 1..((Len(profile) - 1) * S) |->
                          LatheStep(c, profile, S, ((i - 1) \div S) + 1,
                                    (i - 1) % S, rgb)]
         IN EmitAll(m, Flatten(steps, 1))

\* ------------------------------------------------------------ extrudePath

\* Vectors of whole numbers.  The paths of the model run along one coordinate
\* axis in steps of 0 or 1, and on them every square root and every quotient
\* of extrudePath is a whole number.
Dot(a, b) == a[1] * b[1] + a[2] * b[2] + a[3] * b[3]
VSub(a, b) == <<a[1] - b[1], a[2] - b[2], a[3] - b[3]>>
Scale(k, a) == <<k * a[1], k * a[2], k * a[3]>>
\* The vector a divided by the whole number k > 0 (each quotient is exact).
VDiv(a, k) == <<a[1] \div k, a[2] \div k, a[3] \div k>>
Cross(a, b) ==
    << a[2] * b[3] - a[3] * b[2], a[3] * b[1] - a[1] * b[3],
       a[1] * b[2] - a[2] * b[1] >>

\* Math.sqrt(n) || 1 on a square number n.
SqrtOr1(n) ==
    LET root == CHOOSE k \in 0..n : k * k <= n /\ (k + 1) * (k + 1) > n
    IN IF root = 0 THEN 1 ELSE root

\* tangents[i] (i from 1): the direction from the previous to the next point.
Tangent(path, i) ==
    LET prev == IF i > 1 THEN path[i - 1] ELSE path[i]
        next == IF i < Len(path) THEN path[i + 1] ELSE path[i]
        d == VSub(next, prev)
    IN VDiv(d, SqrtOr1(Dot(d, d)))

\* normals[0]: a vector across the first tangent.
FirstNormal(t0) ==
    LET notParallel == Abs(t0[1]) < 1
        arbx == IF notParallel THEN 1 ELSE 0
        arby == IF notParallel THEN 0 ELSE 1
        n == <<(0 - t0[3]) * arby, t0[3] * arbx, t0[1] * arby - t0[2] * arbx>>
    IN VDiv(n, SqrtOr1(Dot(n, n)))

\* normals[i] (i from 1): the rotation-minimizing frame by double reflection.
RECURSIVE FrameNormal(_, _)
FrameNormal(path, i) ==
    IF i = 1 THEN FirstNormal(Tangent(path, 1))
    ELSE LET ti == Tangent(path, i - 1)
             tj == Tangent(path, i)
             v == VSub(path[i], path[i - 1])
             c1 == Dot(v, v)
             nPrev == FrameNormal(path, i - 1)
         IN IF c1 = 0 THEN nPrev
            ELSE LET dot1n == (Dot(v, nPrev) \div c1) * 2
                     rn == VSub(nPrev, Scale(dot1n, v))
                     dot1t == (Dot(v, ti) \div c1) * 2
                     rt == VSub(ti, Scale(dot1t, v))
                     v2 == VSub(tj, rt)
                     c2 == Dot(v2, v2)
                 IN IF c2 = 0 THEN rn
                    ELSE VSub(rn, Scale((Dot(v2, rn) \div c2) * 2, v2))

\* binormals[i]: with a repeated path point the binormal of the point before.
RECURSIVE FrameBinormal(_, _)
FrameBinormal(path, i) ==
    IF i > 1 /\ path[i] = path[i - 1] THEN FrameBinormal(path, i - 1)
    ELSE Cross(Tangent(path, i), FrameNormal(path, i))

\* rings[i][j]: profile point j in the frame at path point i.
RingPoint(path, profile, i, j) ==
    LET pt == path[i]
        n == FrameNormal(path, i)
        b == FrameBinormal(path, i)
        px == profile[j][1]
        py == profile[j][2]
    IN << Num(pt[1] + px * n[1] + py * b[1]), Num(pt[2] + px * n[2] + py * b[2]),
          Num(pt[3] + px * n[3] + py * b[3]) >>

\* jMax with the `closed` argument ignored.
RingQuadsOpen(pLen, closed) == pLen - 1

\* jMax: the quads between two rings.
RingQuads(pLen, closed) == IF closed THEN pLen ELSE pLen - 1

\* The quad between rings i and i + 1 from profile point j (both from 1) to
\* the next one, as the triangles emitQuad appends.
ExtrudeStep(path, profile, i, j, rgb) ==
    LET j1 == (j % Len(profile)) + 1 IN
    emitQuad(FreshMesh,
             RingPoint(path, profile, i, j) \o RingPoint(path, profile, i, j1)
                \o RingPoint(path, profile, i + 1, j1),
             RingPoint(path, profile, i + 1, j), rgb).tris

\* extrudePath(profile, path, closed, r,g,b) on the mesh m.
extrudePath(m, profile, path, closed, rgb) ==
    IF Len(profile) < 2 \/ Len(path) < 2 THEN m
    ELSE LET jMax == RingQuads(Len(profile), closed)
             steps == [k \in 1..((Len(path) - 1) * jMax) |->
                          ExtrudeStep(path, profile, ((k - 1) \div jMax) + 1,
                                      ((k - 1) % jMax) + 1, rgb)]
         IN EmitAll(m, Flatten(steps, 1))

\* ------------------------------------------------------------ marching cubes

\* MC_EDGE_TABLE: for each cube index, the edges the surface crosses, as a bit
\* mask over the 12 edges.
MC_EDGE_TABLE ==
    << 0, 265, 515, 778, 1030, 1295, 1541, 1804, 2060, 2309, 2575, 2822,
       3082, 3331, 3593, 3840, 400, 153, 915, 666, 1430, 1183, 1941, 1692,
       2460, 2197, 2975, 2710, 3482, 3219, 3993, 3728, 560, 825, 51, 314,
       1590, 1855, 1077, 1340, 2620, 2869, 2111, 2358, 3642, 3891, 3129,
       3376, 928, 681, 419, 170, 1958, 1711, 1445, 1196, 2988, 2725, 2479,
       2214, 4010, 3747, 3497, 3232, 1120, 1385, 1635, 1898, 102, 367,
       613, 876, 3180, 3429, 3695, 3942, 2154, 2403, 2665, 2912, 1520,
       1273, 2035, 1786, 502, 255, 1013, 764, 3580, 3317, 4095, 3830,
       2554, 2291, 3065, 2800, 1616, 1881, 1107, 1370, 598, 863, 85, 348,
       3676, 3925, 3167, 3414, 2650, 2899, 2137, 2384, 1984, 1737, 1475,
       1226, 966, 719, 453, 204, 4044, 3781, 3535, 3270, 3018, 2755, 2505,
       2240, 2240, 2505, 2755, 3018, 3270, 3535, 3781, 4044, 204, 453,
       719, 966, 1226, 1475, 1737, 1984, 2384, 2137, 2899, 2650, 3414,
       3167, 3925, 3676, 348, 85, 863, 598, 1370, 1107, 1881, 1616, 2800,
       3065, 2291, 2554, 3830, 4095, 3317, 3580, 764, 1013, 255, 502,
       1786, 2035, 1273, 1520, 2912, 2665, 2403, 2154, 3942, 3695, 3429,
       3180, 876, 613, 367, 102, 1898, 1635, 1385, 1120, 3232, 3497, 3747,
       4010, 2214, 2479, 2725, 2988, 1196, 1445, 1711, 1958, 170, 419,
       681, 928, 3376, 3129, 3891, 3642, 2358, 2111, 2869, 2620, 1340,
       1077, 1855, 1590, 314, 51, 825, 560, 3728, 3993, 3219, 3482, 2710,
       2975, 2197, 2460, 1692, 1941, 1183, 1430, 666, 915, 153, 400, 3840,
       3593, 3331, 3082, 2822, 2575, 2309, 2060, 1804, 1541, 1295, 1030,
       778, 515, 265, 0 >>

\* MC_TRI_TABLE: for each cube index, the edge indices of its triangles, ended
\* by -1.
MC_TRI_TABLE ==
    << <<-1>>, <<0, 8, 3, -1>>, <<0, 1, 9, -1>>, <<1, 8, 3, 9, 8, 1, -1>>,
       <<1, 2, 10, -1>>, <<0, 8, 3, 1, 2, 10, -1>>,
       <<9, 2, 10, 0, 2, 9, -1>>, <<2, 8, 3, 2, 10, 8, 10, 9, 8, -1>>,
       <<3, 11, 2, -1>>, <<0, 11, 2, 8, 11, 0, -1>>,
       <<1, 9, 0, 2, 3, 11, -1>>, <<1, 11, 2, 1, 9, 11, 9, 8, 11, -1>>,
       <<3, 10, 1, 11, 10, 3, -1>>, <<0, 10, 1, 0, 8, 10, 8, 11, 10, -1>>,
       <<3, 9, 0, 3, 11, 9, 11, 10, 9, -1>>, <<9, 8, 10, 10, 8, 11, -1>>,
       <<4, 7, 8, -1>>, <<4, 3, 0, 7, 3, 4, -1>>,
       <<0, 1, 9, 8, 4, 7, -1>>, <<4, 1, 9, 4, 7, 1, 7, 3, 1, -1>>,
       <<1, 2, 10, 8, 4, 7, -1>>, <<3, 4, 7, 3, 0, 4, 1, 2, 10, -1>>,
       <<9, 2, 10, 9, 0, 2, 8, 4, 7, -1>>,
       <<2, 10, 9, 2, 9, 7, 2, 7, 3, 7, 9, 4, -1>>,
       <<8, 4, 7, 3, 11, 2, -1>>, <<11, 4, 7, 11, 2, 4, 2, 0, 4, -1>>,
       <<9, 0, 1, 8, 4, 7, 2, 3, 11, -1>>,
       <<4, 7, 11, 9, 4, 11, 9, 11, 2, 9, 2, 1, -1>>,
       <<3, 10, 1, 3, 11, 10, 7, 8, 4, -1>>,
       <<1, 11, 10, 1, 4, 11, 1, 0, 4, 7, 11, 4, -1>>,
       <<4, 7, 8, 9, 0, 11, 9, 11, 10, 11, 0, 3, -1>>,
       <<4, 7, 11, 4, 11, 9, 9, 11, 10, -1>>, <<9, 5, 4, -1>>,
       <<9, 5, 4, 0, 8, 3, -1>>, <<0, 5, 4, 1, 5, 0, -1>>,
       <<8, 5, 4, 8, 3, 5, 3, 1, 5, -1>>, <<1, 2, 10, 9, 5, 4, -1>>,
       <<3, 0, 8, 1, 2, 10, 4, 9, 5, -1>>,
       <<5, 2, 10, 5, 4, 2, 4, 0, 2, -1>>,
       <<2, 10, 5, 3, 2, 5, 3, 5, 4, 3, 4, 8, -1>>,
       <<9, 5, 4, 2, 3, 11, -1>>, <<0, 11, 2, 0, 8, 11, 4, 9, 5, -1>>,
       <<0, 5, 4, 0, 1, 5, 2, 3, 11, -1>>,
       <<2, 1, 5, 2, 5, 8, 2, 8, 11, 4, 8, 5, -1>>,
       <<10, 3, 11, 10, 1, 3, 9, 5, 4, -1>>,
       <<4, 9, 5, 0, 8, 1, 8, 10, 1, 8, 11, 10, -1>>,
       <<5, 4, 0, 5, 0, 11, 5, 11, 10, 11, 0, 3, -1>>,
       <<5, 4, 8, 5, 8, 10, 10, 8, 11, -1>>, <<9, 7, 8, 5, 7, 9, -1>>,
       <<9, 3, 0, 9, 5, 3, 5, 7, 3, -1>>,
       <<0, 7, 8, 0, 1, 7, 1, 5, 7, -1>>, <<1, 5, 3, 3, 5, 7, -1>>,
       <<9, 7, 8, 9, 5, 7, 10, 1, 2, -1>>,
       <<10, 1, 2, 9, 5, 0, 5, 3, 0, 5, 7, 3, -1>>,
       <<8, 0, 2, 8, 2, 5, 8, 5, 7, 10, 5, 2, -1>>,
       <<2, 10, 5, 2, 5, 3, 3, 5, 7, -1>>,
       <<7, 9, 5, 7, 8, 9, 3, 11, 2, -1>>,
       <<9, 5, 7, 9, 7, 2, 9, 2, 0, 2, 7, 11, -1>>,
       <<2, 3, 11, 0, 1, 8, 1, 7, 8, 1, 5, 7, -1>>,
       <<11, 2, 1, 11, 1, 7, 7, 1, 5, -1>>,
       <<9, 5, 8, 8, 5, 7, 10, 1, 3, 10, 3, 11, -1>>,
       <<5, 7, 0, 5, 0, 9, 7, 11, 0, 1, 0, 10, 11, 10, 0, -1>>,
       <<11, 10, 0, 11, 0, 3, 10, 5, 0, 8, 0, 7, 5, 7, 0, -1>>,
       <<11, 10, 5, 7, 11, 5, -1>>, <<10, 6, 5, -1>>,
       <<0, 8, 3, 5, 10, 6, -1>>, <<9, 0, 1, 5, 10, 6, -1>>,
       <<1, 8, 3, 1, 9, 8, 5, 10, 6, -1>>, <<1, 6, 5, 2, 6, 1, -1>>,
       <<1, 6, 5, 1, 2, 6, 3, 0, 8, -1>>,
       <<9, 6, 5, 9, 0, 6, 0, 2, 6, -1>>,
       <<5, 9, 8, 5, 8, 2, 5, 2, 6, 3, 2, 8, -1>>,
       <<2, 3, 11, 10, 6, 5, -1>>, <<11, 0, 8, 11, 2, 0, 10, 6, 5, -1>>,
       <<0, 1, 9, 2, 3, 11, 5, 10, 6, -1>>,
       <<5, 10, 6, 1, 9, 2, 9, 11, 2, 9, 8, 11, -1>>,
       <<6, 3, 11, 6, 5, 3, 5, 1, 3, -1>>,
       <<0, 8, 11, 0, 11, 5, 0, 5, 1, 5, 11, 6, -1>>,
       <<3, 11, 6, 0, 3, 6, 0, 6, 5, 0, 5, 9, -1>>,
       <<6, 5, 9, 6, 9, 11, 11, 9, 8, -1>>, <<5, 10, 6, 4, 7, 8, -1>>,
       <<4, 3, 0, 4, 7, 3, 6, 5, 10, -1>>,
       <<1, 9, 0, 5, 10, 6, 8, 4, 7, -1>>,
       <<10, 6, 5, 1, 9, 7, 1, 7, 3, 7, 9, 4, -1>>,
       <<6, 1, 2, 6, 5, 1, 4, 7, 8, -1>>,
       <<1, 2, 5, 5, 2, 6, 3, 0, 4, 3, 4, 7, -1>>,
       <<8, 4, 7, 9, 0, 5, 0, 6, 5, 0, 2, 6, -1>>,
       <<7, 3, 9, 7, 9, 4, 3, 2, 9, 5, 9, 6, 2, 6, 9, -1>>,
       <<3, 11, 2, 7, 8, 4, 10, 6, 5, -1>>,
       <<5, 10, 6, 4, 7, 2, 4, 2, 0, 2, 7, 11, -1>>,
       <<0, 1, 9, 4, 7, 8, 2, 3, 11, 5, 10, 6, -1>>,
       <<9, 2, 1, 9, 11, 2, 9, 4, 11, 7, 11, 4, 5, 10, 6, -1>>,
       <<8, 4, 7, 3, 11, 5, 3, 5, 1, 5, 11, 6, -1>>,
       <<5, 1, 11, 5, 11, 6, 1, 0, 11, 7, 11, 4, 0, 4, 11, -1>>,
       <<0, 5, 9, 0, 6, 5, 0, 3, 6, 11, 6, 3, 8, 4, 7, -1>>,
       <<6, 5, 9, 6, 9, 11, 4, 7, 9, 7, 11, 9, -1>>,
       <<10, 4, 9, 6, 4, 10, -1>>, <<4, 10, 6, 4, 9, 10, 0, 8, 3, -1>>,
       <<10, 0, 1, 10, 6, 0, 6, 4, 0, -1>>,
       <<8, 3, 1, 8, 1, 6, 8, 6, 4, 6, 1, 10, -1>>,
       <<1, 4, 9, 1, 2, 4, 2, 6, 4, -1>>,
       <<3, 0, 8, 1, 2, 4, 2, 6, 4, 4, 2, 9, -1>>,
       <<0, 2, 4, 4, 2, 6, -1>>, <<8, 3, 2, 8, 2, 4, 4, 2, 6, -1>>,
       <<10, 4, 9, 10, 6, 4, 11, 2, 3, -1>>,
       <<0, 8, 2, 2, 8, 11, 4, 9, 10, 4, 10, 6, -1>>,
       <<3, 11, 2, 0, 1, 6, 0, 6, 4, 6, 1, 10, -1>>,
       <<6, 4, 1, 6, 1, 10, 4, 8, 1, 2, 1, 11, 8, 11, 1, -1>>,
       <<9, 6, 4, 9, 3, 6, 9, 1, 3, 11, 6, 3, -1>>,
       <<8, 11, 1, 8, 1, 0, 11, 6, 1, 9, 1, 4, 6, 4, 1, -1>>,
       <<3, 11, 6, 3, 6, 0, 0, 6, 4, -1>>, <<6, 4, 8, 11, 6, 8, -1>>,
       <<7, 10, 6, 7, 8, 10, 8, 9, 10, -1>>,
       <<0, 7, 3, 0, 10, 7, 0, 9, 10, 6, 7, 10, -1>>,
       <<10, 6, 7, 1, 10, 7, 1, 7, 8, 1, 8, 0, -1>>,
       <<10, 6, 7, 10, 7, 1, 1, 7, 3, -1>>,
       <<1, 2, 6, 1, 6, 8, 1, 8, 9, 8, 6, 7, -1>>,
       <<2, 6, 9, 2, 9, 1, 6, 7, 9, 0, 9, 3, 7, 3, 9, -1>>,
       <<7, 8, 0, 7, 0, 6, 6, 0, 2, -1>>, <<7, 3, 2, 6, 7, 2, -1>>,
       <<2, 3, 11, 10, 6, 8, 10, 8, 9, 8, 6, 7, -1>>,
       <<2, 0, 7, 2, 7, 11, 0, 9, 7, 6, 7, 10, 9, 10, 7, -1>>,
       <<1, 8, 0, 1, 7, 8, 1, 10, 7, 6, 7, 10, 2, 3, 11, -1>>,
       <<11, 2, 1, 11, 1, 7, 10, 6, 1, 6, 7, 1, -1>>,
       <<8, 9, 6, 8, 6, 7, 9, 1, 6, 11, 6, 3, 1, 3, 6, -1>>,
       <<0, 9, 1, 11, 6, 7, -1>>,
       <<7, 8, 0, 7, 0, 6, 3, 11, 0, 11, 6, 0, -1>>, <<7, 11, 6, -1>>,
       <<7, 6, 11, -1>>, <<3, 0, 8, 11, 7, 6, -1>>,
       <<0, 1, 9, 11, 7, 6, -1>>, <<8, 1, 9, 8, 3, 1, 11, 7, 6, -1>>,
       <<10, 1, 2, 6, 11, 7, -1>>, <<1, 2, 10, 3, 0, 8, 6, 11, 7, -1>>,
       <<2, 9, 0, 2, 10, 9, 6, 11, 7, -1>>,
       <<6, 11, 7, 2, 10, 3, 10, 8, 3, 10, 9, 8, -1>>,
       <<7, 2, 3, 6, 2, 7, -1>>, <<7, 0, 8, 7, 6, 0, 6, 2, 0, -1>>,
       <<2, 7, 6, 2, 3, 7, 0, 1, 9, -1>>,
       <<1, 6, 2, 1, 8, 6, 1, 9, 8, 8, 7, 6, -1>>,
       <<10, 7, 6, 10, 1, 7, 1, 3, 7, -1>>,
       <<10, 7, 6, 1, 7, 10, 1, 8, 7, 1, 0, 8, -1>>,
       <<0, 3, 7, 0, 7, 10, 0, 10, 9, 6, 10, 7, -1>>,
       <<7, 6, 10, 7, 10, 8, 8, 10, 9, -1>>, <<6, 8, 4, 11, 8, 6, -1>>,
       <<3, 6, 11, 3, 0, 6, 0, 4, 6, -1>>,
       <<8, 6, 11, 8, 4, 6, 9, 0, 1, -1>>,
       <<9, 4, 6, 9, 6, 3, 9, 3, 1, 11, 3, 6, -1>>,
       <<6, 8, 4, 6, 11, 8, 2, 10, 1, -1>>,
       <<1, 2, 10, 3, 0, 11, 0, 6, 11, 0, 4, 6, -1>>,
       <<4, 11, 8, 4, 6, 11, 0, 2, 9, 2, 10, 9, -1>>,
       <<10, 9, 3, 10, 3, 2, 9, 4, 3, 11, 3, 6, 4, 6, 3, -1>>,
       <<8, 2, 3, 8, 4, 2, 4, 6, 2, -1>>, <<0, 4, 2, 4, 6, 2, -1>>,
       <<1, 9, 0, 2, 3, 4, 2, 4, 6, 4, 3, 8, -1>>,
       <<1, 9, 4, 1, 4, 2, 2, 4, 6, -1>>,
       <<8, 1, 3, 8, 6, 1, 8, 4, 6, 6, 10, 1, -1>>,
       <<10, 1, 0, 10, 0, 6, 6, 0, 4, -1>>,
       <<4, 6, 3, 4, 3, 8, 6, 10, 3, 0, 3, 9, 10, 9, 3, -1>>,
       <<10, 9, 4, 6, 10, 4, -1>>, <<4, 9, 5, 7, 6, 11, -1>>,
       <<0, 8, 3, 4, 9, 5, 11, 7, 6, -1>>,
       <<5, 0, 1, 5, 4, 0, 7, 6, 11, -1>>,
       <<11, 7, 6, 8, 3, 4, 3, 5, 4, 3, 1, 5, -1>>,
       <<9, 5, 4, 10, 1, 2, 7, 6, 11, -1>>,
       <<6, 11, 7, 1, 2, 10, 0, 8, 3, 4, 9, 5, -1>>,
       <<7, 6, 11, 5, 4, 10, 4, 2, 10, 4, 0, 2, -1>>,
       <<3, 4, 8, 3, 5, 4, 3, 2, 5, 10, 5, 2, 11, 7, 6, -1>>,
       <<7, 2, 3, 7, 6, 2, 5, 4, 9, -1>>,
       <<9, 5, 4, 0, 8, 6, 0, 6, 2, 6, 8, 7, -1>>,
       <<3, 6, 2, 3, 7, 6, 1, 5, 0, 5, 4, 0, -1>>,
       <<6, 2, 8, 6, 8, 7, 2, 1, 8, 4, 8, 5, 1, 5, 8, -1>>,
       <<9, 5, 4, 10, 1, 6, 1, 7, 6, 1, 3, 7, -1>>,
       <<1, 6, 10, 1, 7, 6, 1, 0, 7, 8, 7, 0, 9, 5, 4, -1>>,
       <<4, 0, 10, 4, 10, 5, 0, 3, 10, 6, 10, 7, 3, 7, 10, -1>>,
       <<7, 6, 10, 7, 10, 8, 5, 4, 10, 4, 8, 10, -1>>,
       <<6, 9, 5, 6, 11, 9, 11, 8, 9, -1>>,
       <<3, 6, 11, 0, 6, 3, 0, 5, 6, 0, 9, 5, -1>>,
       <<0, 11, 8, 0, 5, 11, 0, 1, 5, 5, 6, 11, -1>>,
       <<6, 11, 3, 6, 3, 5, 5, 3, 1, -1>>,
       <<1, 2, 10, 9, 5, 11, 9, 11, 8, 11, 5, 6, -1>>,
       <<0, 11, 3, 0, 6, 11, 0, 9, 6, 5, 6, 9, 1, 2, 10, -1>>,
       <<11, 8, 5, 11, 5, 6, 8, 0, 5, 10, 5, 2, 0, 2, 5, -1>>,
       <<6, 11, 3, 6, 3, 5, 2, 10, 3, 10, 5, 3, -1>>,
       <<5, 8, 9, 5, 2, 8, 5, 6, 2, 3, 8, 2, -1>>,
       <<9, 5, 6, 9, 6, 0, 0, 6, 2, -1>>,
       <<1, 5, 8, 1, 8, 0, 5, 6, 8, 3, 8, 2, 6, 2, 8, -1>>,
       <<1, 5, 6, 2, 1, 6, -1>>,
       <<1, 3, 6, 1, 6, 10, 3, 8, 6, 5, 6, 9, 8, 9, 6, -1>>,
       <<10, 1, 0, 10, 0, 6, 9, 5, 0, 5, 6, 0, -1>>,
       <<0, 3, 8, 5, 6, 10, -1>>, <<10, 5, 6, -1>>,
       <<11, 5, 10, 7, 5, 11, -1>>, <<11, 5, 10, 11, 7, 5, 8, 3, 0, -1>>,
       <<5, 11, 7, 5, 10, 11, 1, 9, 0, -1>>,
       <<10, 7, 5, 10, 11, 7, 9, 8, 1, 8, 3, 1, -1>>,
       <<11, 1, 2, 11, 7, 1, 7, 5, 1, -1>>,
       <<0, 8, 3, 1, 2, 7, 1, 7, 5, 7, 2, 11, -1>>,
       <<9, 7, 5, 9, 2, 7, 9, 0, 2, 2, 11, 7, -1>>,
       <<7, 5, 2, 7, 2, 11, 5, 9, 2, 3, 2, 8, 9, 8, 2, -1>>,
       <<2, 5, 10, 2, 3, 5, 3, 7, 5, -1>>,
       <<8, 2, 0, 8, 5, 2, 8, 7, 5, 10, 2, 5, -1>>,
       <<9, 0, 1, 5, 10, 3, 5, 3, 7, 3, 10, 2, -1>>,
       <<9, 8, 2, 9, 2, 1, 8, 7, 2, 10, 2, 5, 7, 5, 2, -1>>,
       <<1, 3, 5, 3, 7, 5, -1>>, <<0, 8, 7, 0, 7, 1, 1, 7, 5, -1>>,
       <<9, 0, 3, 9, 3, 5, 5, 3, 7, -1>>, <<9, 8, 7, 5, 9, 7, -1>>,
       <<5, 8, 4, 5, 10, 8, 10, 11, 8, -1>>,
       <<5, 0, 4, 5, 11, 0, 5, 10, 11, 11, 3, 0, -1>>,
       <<0, 1, 9, 8, 4, 10, 8, 10, 11, 10, 4, 5, -1>>,
       <<10, 11, 4, 10, 4, 5, 11, 3, 4, 9, 4, 1, 3, 1, 4, -1>>,
       <<2, 5, 1, 2, 8, 5, 2, 11, 8, 4, 5, 8, -1>>,
       <<0, 4, 11, 0, 11, 3, 4, 5, 11, 2, 11, 1, 5, 1, 11, -1>>,
       <<0, 2, 5, 0, 5, 9, 2, 11, 5, 4, 5, 8, 11, 8, 5, -1>>,
       <<9, 4, 5, 2, 11, 3, -1>>,
       <<2, 5, 10, 3, 5, 2, 3, 4, 5, 3, 8, 4, -1>>,
       <<5, 10, 2, 5, 2, 4, 4, 2, 0, -1>>,
       <<3, 10, 2, 3, 5, 10, 3, 8, 5, 4, 5, 8, 0, 1, 9, -1>>,
       <<5, 10, 2, 5, 2, 4, 1, 9, 2, 9, 4, 2, -1>>,
       <<8, 4, 5, 8, 5, 3, 3, 5, 1, -1>>, <<0, 4, 5, 1, 0, 5, -1>>,
       <<8, 4, 5, 8, 5, 3, 9, 0, 5, 0, 3, 5, -1>>, <<9, 4, 5, -1>>,
       <<4, 11, 7, 4, 9, 11, 9, 10, 11, -1>>,
       <<0, 8, 3, 4, 9, 7, 9, 11, 7, 9, 10, 11, -1>>,
       <<1, 10, 11, 1, 11, 4, 1, 4, 0, 7, 4, 11, -1>>,
       <<3, 1, 4, 3, 4, 8, 1, 10, 4, 7, 4, 11, 10, 11, 4, -1>>,
       <<4, 11, 7, 9, 11, 4, 9, 2, 11, 9, 1, 2, -1>>,
       <<9, 7, 4, 9, 11, 7, 9, 1, 11, 2, 11, 1, 0, 8, 3, -1>>,
       <<11, 7, 4, 11, 4, 2, 2, 4, 0, -1>>,
       <<11, 7, 4, 11, 4, 2, 8, 3, 4, 3, 2, 4, -1>>,
       <<2, 9, 10, 2, 7, 9, 2, 3, 7, 7, 4, 9, -1>>,
       <<9, 10, 7, 9, 7, 4, 10, 2, 7, 8, 7, 0, 2, 0, 7, -1>>,
       <<3, 7, 10, 3, 10, 2, 7, 4, 10, 1, 10, 0, 4, 0, 10, -1>>,
       <<1, 10, 2, 8, 7, 4, -1>>, <<4, 9, 1, 4, 1, 7, 7, 1, 3, -1>>,
       <<4, 9, 1, 4, 1, 7, 0, 8, 1, 8, 7, 1, -1>>,
       <<4, 0, 3, 7, 4, 3, -1>>, <<4, 8, 7, -1>>,
       <<9, 10, 8, 10, 11, 8, -1>>, <<3, 0, 9, 3, 9, 11, 11, 9, 10, -1>>,
       <<0, 1, 10, 0, 10, 8, 8, 10, 11, -1>>, <<3, 1, 10, 11, 3, 10, -1>>,
       <<1, 2, 11, 1, 11, 9, 9, 11, 8, -1>>,
       <<3, 0, 9, 3, 9, 11, 1, 2, 9, 2, 11, 9, -1>>,
       <<0, 2, 11, 8, 0, 11, -1>>, <<3, 2, 11, -1>>,
       <<2, 3, 8, 2, 8, 10, 10, 8, 9, -1>>, <<9, 10, 2, 0, 9, 2, -1>>,
       <<2, 3, 8, 2, 8, 10, 0, 1, 8, 1, 10, 8, -1>>, <<1, 10, 2, -1>>,
       <<1, 3, 8, 9, 1, 8, -1>>, <<0, 9, 1, -1>>, <<0, 3, 8, -1>>, <<-1>> >>

\* The two corners of each edge and the grid offset of each corner (corners and
\* edges count from 0, as in the tables).
edgeVerts ==
    << <<0, 1>>, <<1, 2>>, <<2, 3>>, <<3, 0>>, <<4, 5>>, <<5, 6>>, <<6, 7>>,
       <<7, 4>>, <<0, 4>>, <<1, 5>>, <<2, 6>>, <<3, 7>> >>
cornerOffsets ==
    << <<0, 0, 0>>, <<1, 0, 0>>, <<1, 1, 0>>, <<0, 1, 0>>,
       <<0, 0, 1>>, <<1, 0, 1>>, <<1, 1, 1>>, <<0, 1, 1>> >>

\* mask & (1 << e)
Bit(mask, e) == (mask \div (2 ^ e)) % 2 = 1

\* if (vals[c] < 0) cubeIndex |= (1 << c): bit c is set when corner c is
\* inside.  The corner values of the model are finite and counted in halves.
\* CornerBit with a sample of 0 counted as inside.
CornerBitInclusive(vals, c) == IF vals[c + 1] <= 0 THEN 2 ^ c ELSE 0

CornerBit(vals, c) == IF vals[c + 1] < 0 THEN 2 ^ c ELSE 0
CubeIndex(vals) ==
    CornerBit(vals, 0) + CornerBit(vals, 1) + CornerBit(vals, 2)
        + CornerBit(vals, 3) + CornerBit(vals, 4) + CornerBit(vals, 5)
        + CornerBit(vals, 6) + CornerBit(vals, 7)

\* EdgeMask that never reports edge 11.
EdgeMaskWithoutEdge11(cubeIndex) == MC_EDGE_TABLE[cubeIndex + 1] % 2048

\* edgeMask = MC_EDGE_TABLE[cubeIndex]
EdgeMask(cubeIndex) == MC_EDGE_TABLE[cubeIndex + 1]

\* verts[e] = null
NoVertex == [set |-> FALSE, v0 |-> 0, v1 |-> 0]

\* verts[e] for the 12 edges, by the two corner values the crossing is
\* interpolated from: t = v0 / (v0 - v1).
EdgeCrossings(vals) ==
    [e \in 1..12 |->
        IF Bit(EdgeMask(CubeIndex(vals)), e - 1)
        THEN [set |-> TRUE, v0 |-> vals[edgeVerts[e][1] + 1],
              v1 |-> vals[edgeVerts[e][2] + 1]]
        ELSE NoVertex]

\* tris[i] (i from 0); past the end of the array it is undefined, which names
\* no edge, like the sentinel.
TriAtIndex(tris, i) == IF i + 1 <= Len(tris) THEN tris[i + 1] ELSE -1

\* The groups of three edge indices the triangle loop reads: t = 0;
\* t < tris.length - 1; t += 3, until tris[t] is the sentinel.
RECURSIVE TriGroups(_, _)
TriGroups(tris, t) ==
    IF t >= Len(tris) - 1 \/ TriAtIndex(tris, t) = -1 THEN <<>>
    ELSE << <<TriAtIndex(tris, t), TriAtIndex(tris, t + 1),
              TriAtIndex(tris, t + 2)>> >> \o TriGroups(tris, t + 3)

\* verts[e] is an edge vertex (not null, not undefined).
HasVertex(verts, e) == e \in 0..11 /\ verts[e + 1].set

\* One cell of the march: its cube index, its edge mask, its edge vertices,
\* the groups of its triangle list and those of them that are emitted (a group
\* with a missing edge vertex is skipped).
MarchCell(vals) ==
    LET cubeIndex == CubeIndex(vals)
        verts == EdgeCrossings(vals)
        groups == IF EdgeMask(cubeIndex) = 0 THEN <<>>
                  ELSE TriGroups(MC_TRI_TABLE[cubeIndex + 1], 0)
    IN [ cubeIndex |-> cubeIndex,
         edgeMask |-> EdgeMask(cubeIndex),
         verts |-> verts,
         tris |-> MC_TRI_TABLE[cubeIndex + 1],
         groups |-> groups,
         emitted |-> SelectSeq(groups,
                        LAMBDA g : /\ HasVertex(verts, g[1])
                                   /\ HasVertex(verts, g[2])
                                   /\ HasVertex(verts, g[3])) ]

\* ------------------------------------------------------------ sdfMesh

\* The signed distance functions of the model depend on one coordinate u of
\* the point (coordinates and values in halves): a plane u - a, a slab that is
\* -1 for a <= u < b and 1 elsewhere, and a constant a.
Sdf(kind, axis, a, b) == [kind |-> kind, axis |-> axis, a |-> a, b |-> b]

\* sdfFn(x, y, z)
SdfValue(sdf, pt) ==
    LET u == pt[sdf.axis] IN
    CASE sdf.kind = "plane" -> u - sdf.a
      [] sdf.kind = "slab" -> IF sdf.a <= u /\ u < sdf.b THEN -2 ELSE 2
      [] sdf.kind = "const" -> sdf.a

\* Math.max of three whole numbers.
Max3(a, b, c) ==
    IF a >= b /\ a >= c THEN a ELSE IF b >= c THEN b ELSE c

\* res = resolution || 32
DefaultResolution == 32
Resolution(resolution) ==
    IF resolution = 0 THEN DefaultResolution ELSE resolution

\* dx, dy, dz: the cell size, a whole number for the boxes of the model.
CellSize(box) ==
    [k \in 1..3 |-> (box.bMax[k] - box.bMin[k]) \div Resolution(box.resolution)]

\* eps = Math.max(dx, dy, dz) * 0.5, in halves.
Eps(box) ==
    LET d == CellSize(box) IN Max3(d[1], d[2], d[3])

\* The grid vertex (ix, iy, iz), in halves.
GridPoint(box, i) ==
    [k \in 1..3 |-> 2 * box.bMin[k] + 2 * i[k] * CellSize(box)[k]]

\* The cell with number n in the order of the three loops (ix innermost).
CellAt(box, n) ==
    LET res == Resolution(box.resolution)
    IN <<n % res, (n \div res) % res, n \div (res * res)>>

\* vals: the field at the 8 corners of a cell.
CellVals(sdf, box, cell) ==
    [c \in 1..8 |->
        SdfValue(sdf, GridPoint(box, [k \in 1..3 |-> cell[k] + cornerOffsets[c][k]]))]

\* a / b for a quotient that is a whole number.
Quot(a, b) == IF b < 0 THEN (0 - a) \div (0 - b) ELSE a \div b

\* [vx, vy, vz] of the vertex on edge e (from 1) of a cell, in halves:
\* bMin + (i + c0 + (c1 - c0) * t) * d with t = v0 / (v0 - v1).
EdgePosition(sdf, box, cell, e) ==
    LET vals == CellVals(sdf, box, cell)
        c0 == cornerOffsets[edgeVerts[e][1] + 1]
        c1 == cornerOffsets[edgeVerts[e][2] + 1]
        v0 == vals[edgeVerts[e][1] + 1]
        v1 == vals[edgeVerts[e][2] + 1]
        d == CellSize(box)
    IN [k \in 1..3 |->
            2 * box.bMin[k] + 2 * (cell[k] + c0[k]) * d[k]
                + Quot((c1[k] - c0[k]) * 2 * d[k] * v0, v0 - v1)]

\* The point pt moved by `by` along axis k.
Moved(pt, k, by) == [a \in 1..3 |-> IF a = k THEN pt[a] + by ELSE pt[a]]

\* [gnx/glen, gny/glen, gnz/glen]: the central differences at the vertex,
\* divided by glen = Math.sqrt(...) || 1.  The gradients of the model's
\* functions run along one axis, so glen is a whole number of halves and each
\* quotient is -1, 0 or 1.
EdgeNormal(sdf, box, pos) ==
    LET g == [k \in 1..3 |->
                SdfValue(sdf, Moved(pos, k, Eps(box)))
                    - SdfValue(sdf, Moved(pos, k, 0 - Eps(box)))]
    IN VDiv(g, SqrtOr1(Dot(g, g)))

\* The triangle of one group of edge indices, as _emitSmoothTriangle appends
\* it; colorFn returns rgb at every centroid.
SmoothTriangle(sdf, box, cell, group, rgb) ==
    LET pa == EdgePosition(sdf, box, cell, group[1] + 1)
        pb == EdgePosition(sdf, box, cell, group[2] + 1)
        pc == EdgePosition(sdf, box, cell, group[3] + 1)
        na == EdgeNormal(sdf, box, pa)
        nb == EdgeNormal(sdf, box, pb)
        nc == EdgeNormal(sdf, box, pc)
    IN emitSmoothTriangle(
            FreshMesh,
            [i \in 1..9 |-> F((pa \o pb \o pc)[i])],
            [i \in 1..9 |-> Num((na \o nb \o nc)[i])], rgb, 1).tris

\* The body of the three loops for one cell, on the mesh m.
sdfMeshCell(m, sdf, box, cell, rgb) ==
    LET march == MarchCell(CellVals(sdf, box, cell))
        runs == Flatten([i \in 1..Len(march.emitted) |->
                            SmoothTriangle(sdf, box, cell, march.emitted[i], rgb)],
                        1)
    IN IF runs = <<>> THEN m
       ELSE [EmitAll(m, runs) EXCEPT !.hasCustomNormals = TRUE]

\* ------------------------------------------------------------ output validator

WARN_VERTEX_COUNT == 100000
ERROR_VERTEX_COUNT == 500000
MAX_BOUNDS == 1000
\* Largest number of triangles the degenerate-triangle check aims to sample.
DEGENERATE_SAMPLE == 1000

Min(a, b) == IF a < b THEN a ELSE b
Max(a, b) == IF a > b THEN a ELSE b

RECURSIVE SumSeq(_, _)
SumSeq(q, i) == IF i > Len(q) THEN 0 ELSE q[i] + SumSeq(q, i + 1)

\* The number of array values counted by a loop over the whole array, when
\* perTri[i] of them are counted in one triangle of run i.
SumRuns(tris, perTri) ==
    SumSeq([i \in 1..Len(tris) |-> tris[i].n * perTri[i]], 1)

NotFinite(x) == ~IsFinite(x)
\* Math.abs(v) > MAX_BOUNDS on a finite value (v counts halves).
OutOfBounds(x) == IsFinite(x) /\ Abs(x.v) > 2 * MAX_BOUNDS

\* Number of the values of tuple vals a counting loop counts.
CountNotFinite(vals) == Cardinality({i \in 1..Len(vals) : NotFinite(vals[i])})
CountOutOfBounds(vals) ==
    Cardinality({i \in 1..Len(vals) : OutOfBounds(vals[i])})

\* The triangle with index t (from 0) of the position array.
RECURSIVE TriAt(_, _, _)
TriAt(tris, i, t) ==
    IF t < tris[i].n THEN tris[i].p ELSE TriAt(tris, i + 1, t - tris[i].n)

\* area2 < 1e-20 for the triangle with the nine position values p.  Every
\* product of the cross product has a factor from each coordinate pair, so one
\* non-finite position value makes area2 NaN or Infinity, which is not below
\* the threshold; on finite values the sum of squares is a whole number.
ZeroArea(p) ==
    /\ \A i \in 1..9 : IsFinite(p[i])
    /\ LET ax == p[4].v - p[1].v
           ay == p[5].v - p[2].v
           az == p[6].v - p[3].v
           bx == p[7].v - p[1].v
           by == p[8].v - p[2].v
           bz == p[9].v - p[3].v
           cx == ay * bz - az * by
           cy == az * bx - ax * bz
           cz == ax * by - ay * bx
       IN cx * cx + cy * cy + cz * cz = 0

\* The triangle indices the degenerate check visits: t = 0; t < triCount;
\* t += step.
SampledTriangles(vc) ==
    LET triCount == vc \div 3
        sampleSize == Min(triCount, DEGENERATE_SAMPLE)
    IN IF triCount = 0 THEN {}
       ELSE LET step == Max(1, triCount \div sampleSize)
            IN {k * step : k \in 0..((triCount - 1) \div step)}

SampleStep(vc) ==
    LET triCount == vc \div 3
    IN Max(1, triCount \div Min(triCount, DEGENERATE_SAMPLE))

Warn(kind, n) == [kind |-> kind, n |-> n]

\* validateMeshOutput.  Warnings and errors are kept in the order the code
\* pushes them; a warning is the kind of the message with the number it prints.
validateMeshOutput(layer) ==
    LET vc == layer.meshVertexCount
        countErr == IF vc >= ERROR_VERTEX_COUNT
                    THEN <<Warn("vertex-limit", vc)>> ELSE <<>>
        countWarn == IF vc < ERROR_VERTEX_COUNT /\ vc >= WARN_VERTEX_COUNT
                     THEN <<Warn("slow-to-render", vc)>> ELSE <<>>
        runs == 1..Len(layer.tris)
        nanPositions ==
            SumRuns(layer.tris, [i \in runs |-> CountNotFinite(layer.tris[i].p)])
        outOfBounds ==
            SumRuns(layer.tris,
                    [i \in runs |-> CountOutOfBounds(layer.tris[i].p)])
        nanColors ==
            SumRuns(layer.tris,
                    [i \in runs |-> 3 * CountNotFinite(layer.tris[i].rgb)])
        nanNormals ==
            IF layer.hasCustomNormals
            THEN SumRuns(layer.tris,
                         [i \in runs |-> CountNotFinite(layer.tris[i].nrm)])
            ELSE 0
        degenerateCount ==
            Cardinality({t \in SampledTriangles(vc) :
                            ZeroArea(TriAt(layer.tris, 1, t))})
        errors ==
            countErr \o
            (IF nanPositions > 0 THEN <<Warn("nan-positions", nanPositions)>>
             ELSE <<>>)
        warnings ==
            countWarn \o
            (IF outOfBounds > 0 THEN <<Warn("out-of-bounds", outOfBounds)>>
             ELSE <<>>) \o
            (IF nanColors > 0 THEN <<Warn("nan-colors", nanColors)>>
             ELSE <<>>) \o
            (IF nanNormals > 0 THEN <<Warn("nan-normals", nanNormals)>>
             ELSE <<>>) \o
            (IF degenerateCount > 0
             THEN <<Warn("degenerate", degenerateCount)>> ELSE <<>>)
    IN IF vc = 0
       THEN [ valid |-> TRUE,
              warnings |-> countWarn \o <<Warn("zero-vertices", 0)>>,
              errors |-> countErr ]
       ELSE [ valid |-> errors = <<>>, warnings |-> warnings,
              errors |-> errors ]

\* ------------------------------------------------------------ layer bounds

\* The x (k = 1), y (k = 2) or z (k = 3) value of each vertex, in array order;
\* the n copies of a run repeat the same three vertices.
RECURSIVE AxisValues(_, _, _)
AxisValues(tris, i, k) ==
    IF i > Len(tris) THEN <<>>
    ELSE <<tris[i].p[k], tris[i].p[3 + k], tris[i].p[6 + k]>>
         \o AxisValues(tris, i + 1, k)

\* if (x < min) min = x, over the values in order, from Infinity.
RECURSIVE RunMin(_, _, _)
RunMin(vals, i, acc) ==
    IF i > Len(vals) THEN acc
    ELSE RunMin(vals, i + 1, IF Lt(vals[i], acc) THEN vals[i] ELSE acc)

\* if (x > max) max = x, over the values in order, from -Infinity.
RECURSIVE RunMax(_, _, _)
RunMax(vals, i, acc) ==
    IF i > Len(vals) THEN acc
    ELSE RunMax(vals, i + 1, IF Lt(acc, vals[i]) THEN vals[i] ELSE acc)

\* computeLayerBounds without the test for an empty mesh: the bounds of a mesh
\* without vertices stay at the values the scan starts from.
computeLayerBoundsUnguarded(layer) ==
    LET mn == [k \in 1..3 |-> RunMin(AxisValues(layer.tris, 1, k), 1, PosInf)]
        mx == [k \in 1..3 |-> RunMax(AxisValues(layer.tris, 1, k), 1, NegInf)]
    IN [ id |-> layer.id,
         bounds |-> [ min |-> mn, max |-> mx,
                      center |-> [k \in 1..3 |-> Mid(mn[k], mx[k])] ],
         meshVertexCount |-> layer.meshVertexCount ]

\* computeLayerBounds.
computeLayerBounds(layer) ==
    LET mn == [k \in 1..3 |-> RunMin(AxisValues(layer.tris, 1, k), 1, PosInf)]
        mx == [k \in 1..3 |-> RunMax(AxisValues(layer.tris, 1, k), 1, NegInf)]
        empty == mn[1] = PosInf
    IN [ id |-> layer.id,
         bounds |->
            [ min |-> IF empty THEN Zero3 ELSE mn,
              max |-> IF empty THEN Zero3 ELSE mx,
              center |-> IF empty THEN Zero3
                         ELSE [k \in 1..3 |-> Mid(mn[k], mx[k])] ],
         meshVertexCount |-> layer.meshVertexCount ]

\* ------------------------------------------------------------ spatial analysis

\* IEEE-754 a <= b.
Le(a, b) ==
    IF a = NaN \/ b = NaN THEN FALSE ELSE a = b \/ Lt(a, b)

\* a - b on floats.
Sub(a, b) ==
    IF a = NaN \/ b = NaN THEN NaN
    ELSE IF a.fin /\ b.fin THEN F(a.v - b.v)
    ELSE IF a.fin THEN (IF b = PosInf THEN NegInf ELSE PosInf)
    ELSE IF b.fin THEN a
    ELSE IF a = b THEN NaN ELSE a

\* Math.max and Math.min of two floats.
MathMax(a, b) ==
    IF a = NaN \/ b = NaN THEN NaN ELSE IF Lt(a, b) THEN b ELSE a
MathMin(a, b) ==
    IF a = NaN \/ b = NaN THEN NaN ELSE IF Lt(b, a) THEN b ELSE a

AxisNames == <<"X", "Y", "Z">>

\* aabbOverlaps: a.min[k] <= b.max[k] && a.max[k] >= b.min[k] on every axis.
aabbOverlaps(a, b) ==
    \A k \in 1..3 : Le(a.min[k], b.max[k]) /\ Le(b.min[k], a.max[k])

\* The loop of computeGap and computePenetration over the axes 2 and 3:
\* when Better(candidate, best) the candidate becomes the best.
RECURSIVE BestAxis(_, _, _, _)
BestAxis(vals, i, best, larger) ==
    IF i > Len(vals) THEN best
    ELSE LET cand == [gap |-> vals[i], axis |-> AxisNames[i]]
             better == IF larger THEN Lt(best.gap, cand.gap)
                       ELSE Lt(cand.gap, best.gap)
         IN BestAxis(vals, i + 1, IF better THEN cand ELSE best, larger)

\* computeGap that keeps the X axis.
computeGapOnX(a, b) ==
    [ gap |-> MathMax(F(0), MathMax(Sub(a.min[1], b.max[1]),
                                    Sub(b.min[1], a.max[1]))),
      axis |-> "X" ]

\* computeGap: the axis with the largest separation, the first of equals.
computeGap(a, b) ==
    LET gaps == [k \in 1..3 |->
                    MathMax(F(0), MathMax(Sub(a.min[k], b.max[k]),
                                          Sub(b.min[k], a.max[k])))]
    IN BestAxis(gaps, 2, [gap |-> gaps[1], axis |-> "X"], TRUE)

\* computePenetration: the axis with the smallest overlap, the first of equals.
computePenetration(a, b) ==
    LET overlaps == [k \in 1..3 |->
                        Sub(MathMin(a.max[k], b.max[k]),
                            MathMax(a.min[k], b.min[k]))]
    IN BestAxis(overlaps, 2, [gap |-> overlaps[1], axis |-> "X"], FALSE)

\* distance3D, kept as the square of the distance (Math.sqrt is increasing,
\* so distances compare as their squares do); the values count quarters.
distance3D(a, b) ==
    IF \A k \in 1..3 : a[k].fin /\ b[k].fin
    THEN F((a[1].v - b[1].v) * (a[1].v - b[1].v)
           + (a[2].v - b[2].v) * (a[2].v - b[2].v)
           + (a[3].v - b[3].v) * (a[3].v - b[3].v))
    ELSE IF \E k \in 1..3 : Sub(a[k], b[k]) = NaN THEN NaN ELSE PosInf

NoAxisGap == [gap |-> F(0), axis |-> ""]

\* The LayerRelationship the map callback makes for one existing layer.
Relationship(newLayer, existing) ==
    LET overlaps == aabbOverlaps(newLayer.bounds, existing.bounds) IN
    [ id |-> existing.id, description |-> existing.description,
      overlaps |-> overlaps,
      centerDistance |-> distance3D(newLayer.bounds.center,
                                    existing.bounds.center),
      hasPenetration |-> overlaps,
      penetration |-> IF overlaps
                      THEN computePenetration(newLayer.bounds, existing.bounds)
                      ELSE NoAxisGap,
      hasGap |-> ~overlaps,
      gap |-> IF overlaps THEN NoAxisGap
              ELSE computeGap(newLayer.bounds, existing.bounds) ]

\* Nearest with <= for <, so that the last of equally near layers wins.
RECURSIVE NearestLast(_, _, _, _)
NearestLast(newLayer, existingLayers, i, best) ==
    IF i > Len(existingLayers) THEN best
    ELSE LET existing == existingLayers[i]
             centerDist == distance3D(newLayer.bounds.center,
                                      existing.bounds.center)
         IN NearestLast(newLayer, existingLayers, i + 1,
                    IF Le(centerDist, best.nearestDist)
                    THEN [ nearestDist |-> centerDist, nearestId |-> existing.id,
                           nearestDescription |-> existing.description ]
                    ELSE best)

\* nearestDist, nearestId and nearestDescription after the callbacks of the
\* existing layers from the i-th on.
RECURSIVE Nearest(_, _, _, _)
Nearest(newLayer, existingLayers, i, best) ==
    IF i > Len(existingLayers) THEN best
    ELSE LET existing == existingLayers[i]
             centerDist == distance3D(newLayer.bounds.center,
                                      existing.bounds.center)
         IN Nearest(newLayer, existingLayers, i + 1,
                    IF Lt(centerDist, best.nearestDist)
                    THEN [ nearestDist |-> centerDist, nearestId |-> existing.id,
                           nearestDescription |-> existing.description ]
                    ELSE best)

\* null, the result for no existing layers.
NoAnalysis ==
    [ present |-> FALSE, relationships |-> <<>>, nearestId |-> 0 - 1,
      nearestDescription |-> "" ]

\* analyzeSpatialRelationships; the id "" of no nearest layer is -1.
analyzeSpatialRelationships(newLayer, existingLayers) ==
    IF Len(existingLayers) = 0 THEN NoAnalysis
    ELSE LET nearest == Nearest(newLayer, existingLayers, 1,
                                [ nearestDist |-> PosInf, nearestId |-> 0 - 1,
                                  nearestDescription |-> "" ])
         IN [ present |-> TRUE,
              relationships |->
                [i \in 1..Len(existingLayers) |->
                    Relationship(newLayer, existingLayers[i])],
              nearestId |-> nearest.nearestId,
              nearestDescription |-> nearest.nearestDescription ]

\* ------------------------------------------------------------ user programs

\* An AST node as walkAst visits it.
Node(type, depth) ==
    [type |-> type, depth |-> depth, name |-> "", isString |-> FALSE,
     value |-> <<>>]
Identifier(name, depth) ==
    [type |-> "Identifier", depth |-> depth, name |-> name,
     isString |-> FALSE, value |-> <<>>]
StringLiteral(value, depth) ==
    [type |-> "Literal", depth |-> depth, name |-> "", isString |-> TRUE,
     value |-> value]

\* The nodes acorn gives for a call statement `callee(...)`.
CallNodes(callee) ==
    << Node("Program", 0), Node("ExpressionStatement", 1),
       Node("CallExpression", 2), Identifier(callee, 3) >>

\* A statement of the user code, on source line `line`.
EmitStmt(line, p, rgb, n) ==
    [op |-> "emitTriangle", line |-> line, p |-> p, p4 |-> Zero3, rgb |-> rgb,
     nrm |-> Zero9, n |-> n, value |-> "", message |-> ""]
\* emitQuad with the corners p (the first three) and p4: two triangles.
QuadStmt(line, p, p4, rgb) ==
    [op |-> "emitQuad", line |-> line, p |-> p, p4 |-> p4, rgb |-> rgb,
     nrm |-> Zero9, n |-> 2, value |-> "", message |-> ""]
SmoothStmt(line, p, nrm, rgb, n) ==
    [op |-> "emitSmoothTriangle", line |-> line, p |-> p, p4 |-> Zero3,
     rgb |-> rgb, nrm |-> nrm, n |-> n, value |-> "", message |-> ""]
ThrowStmt(line, value, message) ==
    [op |-> "throw", line |-> line, p |-> Zero9, p4 |-> Zero3, rgb |-> Zero3,
     nrm |-> Zero9, n |-> 0, value |-> value, message |-> message]
LoopStmt(line) ==
    [op |-> "loop", line |-> line, p |-> Zero9, p4 |-> Zero3, rgb |-> Zero3,
     nrm |-> Zero9, n |-> 0, value |-> "", message |-> ""]

\* A source line: leading white space and the rest.
Line(indent, text) == [indent |-> indent, text |-> text]
\* String.prototype.trim on a source line.
Trim(l) == l.text

Code(parses, nodes, lines, body, description) ==
    [parses |-> parses, nodes |-> nodes, lines |-> lines, body |-> body,
     description |-> description]

White == <<Num(1), Num(1), Num(1)>>
UnitTri ==
    << Num(0), Num(0), Num(0),  Num(1), Num(0), Num(0),  Num(0), Num(1), Num(0) >>
\* The unit triangle moved by dx along x.
ShiftedTri(dx) ==
    << Num(dx), Num(0), Num(0),  Num(dx + 1), Num(0), Num(0),
       Num(dx), Num(1), Num(0) >>
FlatTri ==
    << Num(0), Num(0), Num(0),  Num(1), Num(1), Num(1),  Num(2), Num(2), Num(2) >>
\* Three vertices on the x axis, the first one out of bounds.
FarFlatTri ==
    << Num(0 - MAX_BOUNDS - 1), Num(0), Num(0),  Num(0), Num(0), Num(0),
       Num(1), Num(0), Num(0) >>
\* The first three corners and the fourth corner of the unit square.
UnitSquare ==
    << Num(0), Num(0), Num(0),  Num(1), Num(0), Num(0),  Num(1), Num(1), Num(0) >>
UnitCorner4 == <<Num(0), Num(1), Num(0)>>
UpNormals ==
    << Num(0), Num(1), Num(0),  Num(0), Num(1), Num(0),  Num(0), Num(1), Num(0) >>

EmitLine == Line(0, "emitTriangle(...)")
OneEmit(p, rgb, n) ==
    Code(TRUE, CallNodes("emitTriangle"), <<EmitLine>>,
         <<EmitStmt(1, p, rgb, n)>>, "shape")

\* The user programs a behaviour draws its generate calls from.
Programs ==
    << \* 1: the empty source
       Code(TRUE, <<Node("Program", 0)>>, <<Line(0, "")>>, <<>>, ""),
       \* 2: fetch('https://x')
       Code(TRUE,
            CallNodes("fetch") \o
            <<StringLiteral(<<"h", "t", "t", "p", "s", ":", "/", "/", "x">>, 3)>>,
            <<Line(0, "fetch('https://x')")>>, <<LoopStmt(1)>>, "fetch"),
       \* 3: a statement nested deeper than the limit
       Code(TRUE, <<Node("Program", 0), Node("BlockStatement", MAX_AST_DEPTH),
                    Node("BlockStatement", MAX_AST_DEPTH + 1)>>,
            <<Line(0, "{{...}}")>>, <<>>, "deep"),
       \* 4: source that does not parse
       Code(FALSE, <<>>, <<Line(0, "emitTriangle(")>>, <<>>, "broken"),
       \* 5: one triangle
       OneEmit(UnitTri, White, 1),
       \* 6: two triangles, then an Error thrown on line 2 of 4
       Code(TRUE, CallNodes("emitTriangle"),
            <<EmitLine, Line(2, "throw new Error('boom')"), Line(0, ""),
              Line(0, "box(...)")>>,
            <<EmitStmt(1, ShiftedTri(2), White, 2),
              ThrowStmt(2, "Error", "boom"),
              EmitStmt(4, UnitTri, White, 1)>>, "throws late"),
       \* 7: an Error thrown on line 1, before any vertex
       Code(TRUE, CallNodes("undefinedFn"), <<Line(0, "undefinedFn()")>>,
            <<ThrowStmt(1, "Error", "undefinedFn is not defined")>>,
            "throws first"),
       \* 8: throw "boom" after one triangle
       Code(TRUE, CallNodes("emitTriangle"),
            <<EmitLine, Line(0, "throw 'boom'")>>,
            <<EmitStmt(1, UnitTri, White, 1), ThrowStmt(2, "String", "boom")>>,
            "throws string"),
       \* 9: throw null after one triangle
       Code(TRUE, CallNodes("emitTriangle"),
            <<EmitLine, Line(0, "throw null")>>,
            <<EmitStmt(1, UnitTri, White, 1), ThrowStmt(2, "Null", "")>>,
            "throws null"),
       \* 10: while (true) {}
       Code(TRUE, <<Node("Program", 0), Node("WhileStatement", 1)>>,
            <<Line(0, "while (true) {}")>>, <<LoopStmt(1)>>, "hangs"),
       \* 11: 500 001 vertices
       OneEmit(UnitTri, White, 166667),
       \* 12: 499 998 vertices
       OneEmit(UnitTri, White, 166666),
       \* 13: a NaN position value
       OneEmit([UnitTri EXCEPT ![5] = NaN], White, 1),
       \* 14: an infinite position value after a good triangle
       Code(TRUE, CallNodes("emitTriangle"), <<EmitLine, EmitLine>>,
            <<EmitStmt(1, UnitTri, White, 1),
              EmitStmt(2, [UnitTri EXCEPT ![9] = NegInf], White, 1)>>,
            "infinite"),
       \* 15: a position value of 1001
       OneEmit([UnitTri EXCEPT ![4] = Num(MAX_BOUNDS + 1)], White, 1),
       \* 16: a NaN colour
       OneEmit(UnitTri, <<Num(1), NaN, Num(0)>>, 1),
       \* 17: a NaN normal on a smooth triangle
       Code(TRUE, CallNodes("sdfMesh"), <<Line(0, "sdfMesh(...)")>>,
            <<SmoothStmt(1, UnitTri, [UpNormals EXCEPT ![1] = NaN], White, 1)>>,
            "smooth"),
       \* 18: a zero-area triangle
       OneEmit(FlatTri, White, 1),
       \* 19: 100 002 vertices, far away, zero area, infinite colour
       OneEmit(FarFlatTri, <<PosInf, Num(0), Num(0)>>, 33334),
       \* 20: a quad, an iso-surface triangle with unit normals, a flat triangle
       Code(TRUE, CallNodes("emitQuad"),
            <<Line(0, "emitQuad(0,0,0, 1,0,0, 1,1,0, 0,1,0, 1,1,1)"),
              Line(0, "sdfMesh(...)"), EmitLine>>,
            <<QuadStmt(1, UnitSquare, UnitCorner4, White),
              SmoothStmt(2, ShiftedTri(2), UpNormals, White, 1),
              EmitStmt(3, ShiftedTri(4), White, 1)>>,
            "mixed")
    >>

ProgIds == 1..Len(Programs)

\* The programs of the concurrent sessions: a rejected source, a good mesh, a
\* thrown null (a worker error) and a NaN position (a rejected mesh).  Every
\* call with a worker may also time out.
CorePrograms == {2, 5, 9, 13}

\* A session: the programs the LLM may send, how many generate calls it makes,
\* and the stack formats of the browsers it runs in.  The concurrent session
\* interleaves MaxCalls calls; the catalogue session generates any one program
\* of the catalogue.
CoreSession == [progs |-> CorePrograms, calls |-> MaxCalls, engines |-> {"v8"}]
CatalogSession == [progs |-> ProgIds, calls |-> 1, engines |-> {"v8", "other"}]

\* ------------------------------------------------------------ engine facade

\* The error a rejected generate promise carries (the Error's message, by the
\* parts the code builds it from).
Err(kind, reason) ==
    [ kind |-> kind, reason |-> reason, hasLine |-> FALSE, line |-> 0,
      hasText |-> FALSE, text |-> "", hasPartial |-> FALSE, partial |-> 0,
      findings |-> <<>> ]
NoErr == Err("", "")

\* ExecStart with the worker created before the source is validated.
ExecStartSpawnFirst(code) ==
    LET validation == validateCode(code) IN
    [ spawn |-> TRUE,
      err |-> IF validation.valid THEN NoErr
              ELSE Err("validation", validation.error) ]

\* executeProceduralCode up to its return: the validation verdict decides
\* whether the call rejects at once or creates the worker, starts the timer
\* and posts the message.
ExecStart(code) ==
    LET validation == validateCode(code) IN
    IF ~validation.valid
    THEN [spawn |-> FALSE, err |-> Err("validation", validation.error)]
    ELSE [spawn |-> TRUE, err |-> NoErr]

\* The detail of the "Runtime error" a structured error reply is turned into.
RuntimeError(data, code) ==
    LET lineMatch == data.stack.matches
        lineNum == data.stack.line
        inRange == lineNum >= 1 /\ lineNum <= Len(code.lines)
        offendingLine == IF inRange THEN Trim(code.lines[lineNum]) ELSE ""
        partialCount == data.meshVertexCount
    IN [ kind |-> "runtime", reason |-> data.message,
         hasLine |-> lineMatch,
         line |-> IF lineMatch THEN lineNum ELSE 0,
         hasText |-> lineMatch /\ offendingLine # "",
         text |-> IF lineMatch THEN offendingLine ELSE "",
         hasPartial |-> partialCount > 0,
         partial |-> IF partialCount > 0 THEN partialCount ELSE 0,
         findings |-> <<>> ]

\* The GeneratedLayer built from a mesh reply; the id `layer-${k}` is kept as
\* its number k.
\* The GeneratedLayer of the given triangle runs.
MeshLayer(k, tris) ==
    [ id |-> k, tris |-> tris,
      meshVertexCount |-> SumSeq([i \in 1..Len(tris) |-> 3 * tris[i].n], 1),
      hasCustomNormals |-> FALSE,
      lengths |-> [ positions |-> 9 * SumSeq([i \in 1..Len(tris) |-> tris[i].n], 1),
                    colors |-> 9 * SumSeq([i \in 1..Len(tris) |-> tris[i].n], 1),
                    normals |-> 0 ] ]

MakeLayer(data, k) ==
    [ id |-> k, tris |-> data.tris, meshVertexCount |-> data.meshVertexCount,
      hasCustomNormals |-> data.hasCustomNormals,
      lengths |-> [data.lengths EXCEPT
                      !.normals = IF data.hasCustomNormals THEN @ ELSE 0] ]

NoLayer == MakeLayer(NoEvent, 0 - 1)

\* MeshRejected with a warning treated like an error.
MeshRejectedOnWarning(meshValidation) ==
    ~meshValidation.valid \/ meshValidation.warnings # <<>>

\* Whether the facade rejects a layer with this validation result.
MeshRejected(meshValidation) == ~meshValidation.valid

\* OnReply with the id read from the counter but the counter not advanced.
OnReplyReusesId(data, code, nextId) ==
    IF data.error
    THEN [ ok |-> FALSE, err |-> RuntimeError(data, code), layer |-> NoLayer,
           nextId |-> nextId ]
    ELSE LET layer == MakeLayer(data, nextId)
             meshValidation == validateMeshOutput(layer)
         IN IF MeshRejected(meshValidation)
            THEN [ ok |-> FALSE,
                   err |-> [Err("mesh", "") EXCEPT
                               !.findings = meshValidation.errors],
                   layer |-> NoLayer, nextId |-> nextId ]
            ELSE [ ok |-> TRUE, err |-> NoErr, layer |-> layer,
                   nextId |-> nextId ]

\* worker.onmessage after clearTimeout and terminate: how the promise settles
\* and what _nextLayerId becomes.
OnReply(data, code, nextId) ==
    IF data.error
    THEN [ ok |-> FALSE, err |-> RuntimeError(data, code), layer |-> NoLayer,
           nextId |-> nextId ]
    ELSE LET layer == MakeLayer(data, nextId)
             meshValidation == validateMeshOutput(layer)
         IN IF MeshRejected(meshValidation)
            THEN [ ok |-> FALSE,
                   err |-> [Err("mesh", "") EXCEPT
                               !.findings = meshValidation.errors],
                   layer |-> NoLayer, nextId |-> nextId + 1 ]
            ELSE [ ok |-> TRUE, err |-> NoErr, layer |-> layer,
                   nextId |-> nextId + 1 ]

\* ------------------------------------------------------------ state

\* Number of remove_layer and clear_all_layers tool calls a behaviour may make
\* while a scene is attached (without a scene the two handlers do nothing).
MaxOtherCalls == 1

Calls == 1..MaxCalls
\* The layer ids a remove_layer call may name.
LayerIds == 0..(MaxCalls - 1)

VARIABLES
    session,        \* the programs and the number of generate calls of this run
    engine,         \* the browser's stack format: "v8" or "other"
    nextLayerId,    \* _nextLayerId
    started,        \* the generate calls in the order they started
    prog,           \* call -> index of its code in Programs, 0 before it starts
    promise,        \* call -> "none", "pending", "fulfilled", "rejected"
    worker,         \* call -> "none", "running", "finished", "terminated"
    timer,          \* call -> "none", "armed", "cleared", "fired"
    posted,         \* call -> whether worker.postMessage was called
    inbox,          \* call -> the worker's event waiting on the main thread
    outputs,        \* the addToolOutput calls, in order
    otherCalls,     \* remove_layer / clear_all_layers calls handled with a scene
    activeLayers,   \* activeLayersRef: Map id -> layer, in insertion order
    layerMeta,      \* layerMetaRef: Map id -> LayerMeta, in insertion order
    handle,         \* sceneHandleRef.current is not null
    sceneLayers,    \* the scene's `layers` Map: ids in insertion order
    pendingLayers,  \* pendingLayersRef
    layersAtom,     \* layersAtom: the layer list of the sidebar
    args,           \* the arguments of a library function called on its own
    ret             \* what that call returned: <<>> before it, <<value>> after

callVars == <<started, prog, promise, worker, timer, posted, inbox>>
storeVars == <<activeLayers, layerMeta, sceneLayers, pendingLayers, layersAtom>>
vars == <<session, engine, nextLayerId, callVars, outputs, otherCalls, storeVars,
          handle, args, ret>>

\* ------------------------------------------------------------ maps and scene

Ids(map) == {map[i].id : i \in 1..Len(map)}
SeqIds(map) == [i \in 1..Len(map) |-> map[i].id]

\* Map.prototype.set: replace the value of a present key in place, else append.
MapSet(map, val) ==
    IF val.id \in Ids(map)
    THEN [i \in 1..Len(map) |-> IF map[i].id = val.id THEN val ELSE map[i]]
    ELSE Append(map, val)

RECURSIVE Without(_, _)
\* The sequence q without the entries whose id is `id`.
Without(q, id) ==
    IF q = <<>> THEN <<>>
    ELSE IF Head(q).id = id THEN Without(Tail(q), id)
    ELSE <<Head(q)>> \o Without(Tail(q), id)

\* MapDelete that drops the oldest entry instead of the named one.
MapDeleteOldest(map, id) == IF map = <<>> THEN <<>> ELSE Tail(map)

\* Map.prototype.delete.
MapDelete(map, id) == Without(map, id)

\* The scene keeps one entry per layer id; an entry is its id.
SceneEntry(id) == [id |-> id]

\* scene.removeLayer
removeLayer(scene, id) == MapDelete(scene, id)

\* scene.addLayer: a layer without vertices is dropped after the removal.
addLayer(scene, layer) ==
    IF layer.meshVertexCount <= 0 THEN removeLayer(scene, layer.id)
    ELSE Append(removeLayer(scene, layer.id), SceneEntry(layer.id))

RECURSIVE AddLayers(_, _)
AddLayers(scene, layers) ==
    IF layers = <<>> THEN scene
    ELSE AddLayers(addLayer(scene, Head(layers)), Tail(layers))

RECURSIVE MapSetAll(_, _)
MapSetAll(map, vals) ==
    IF vals = <<>> THEN map
    ELSE MapSetAll(MapSet(map, Head(vals)), Tail(vals))

LayerInfo(id, description, vertexCount) ==
    [id |-> id, description |-> description, vertexCount |-> vertexCount,
     visible |-> TRUE]

Description(meta, id) ==
    IF \E i \in 1..Len(meta) : meta[i].id = id
    THEN (CHOOSE m \in {meta[i] : i \in 1..Len(meta)} : m.id = id).description
    ELSE ""

\* ------------------------------------------------------------ tool outputs

\* One addToolOutput call: the tool, the generate call it answers (0 for the
\* other tools), output or output-error, and what the text reports.
Out(tool, call, ok, layerId, err, warnings) ==
    [ tool |-> tool, call |-> call, ok |-> ok, layerId |-> layerId,
      err |-> err, warnings |-> warnings, count |-> 0, spatial |-> NoAnalysis ]

TypeOK ==
    /\ session \in {CoreSession, CatalogSession}
    /\ engine \in {"v8", "other"}
    /\ nextLayerId \in 0..MaxCalls
    /\ Len(started) <= MaxCalls
    /\ prog \in [Calls -> 0..Len(Programs)]
    /\ promise \in [Calls -> {"none", "pending", "fulfilled", "rejected"}]
    /\ worker \in [Calls -> {"none", "running", "finished", "terminated"}]
    /\ timer \in [Calls -> {"none", "armed", "cleared", "fired"}]
    /\ posted \in [Calls -> BOOLEAN]
    /\ otherCalls \in 0..MaxOtherCalls
    /\ handle \in BOOLEAN

\* No library function is called on its own.
NoArgs == [fn |-> "none"]

\* The chat manager before its first tool call.
InitStore(sess) ==
    /\ session = sess
    /\ engine \in sess.engines
    /\ nextLayerId = 0
    /\ started = <<>>
    /\ prog = [c \in Calls |-> 0]
    /\ promise = [c \in Calls |-> "none"]
    /\ worker = [c \in Calls |-> "none"]
    /\ timer = [c \in Calls |-> "none"]
    /\ posted = [c \in Calls |-> FALSE]
    /\ inbox = [c \in Calls |-> NoEvent]
    /\ outputs = <<>>
    /\ otherCalls = 0
    /\ activeLayers = <<>>
    /\ layerMeta = <<>>
    /\ handle = FALSE
    /\ sceneLayers = <<>>
    /\ pendingLayers = <<>>
    /\ layersAtom = <<>>

InitSession(sess) ==
    /\ InitStore(sess)
    /\ args = NoArgs
    /\ ret = <<>>

Init == InitSession(CoreSession)
InitCatalog == InitSession(CatalogSession)

\* ------------------------------------------------------------ actions

\* The catch branch of the generate_3d_points handler.
ReportError(c, err) ==
    outputs' = Append(outputs, Out("generate_3d_points", c, FALSE, 0 - 1, err, <<>>))

\* The generate_3d_points handler after the await: the layer enters the store
\* and the tool output carries its id and the mesh warnings.
LayerArrives(c, layer) ==
    LET meta == [ id |-> layer.id,
                  bounds |-> computeLayerBounds(layer).bounds,
                  meshVertexCount |-> computeLayerBounds(layer).meshVertexCount,
                  description |-> Programs[prog[c]].description ]
        spatial == analyzeSpatialRelationships(meta, layerMeta)
        meshVal == validateMeshOutput(layer)
    IN /\ activeLayers' = MapSet(activeLayers, layer)
       /\ layerMeta' = MapSet(layerMeta, meta)
       /\ IF handle
          THEN /\ sceneLayers' = addLayer(sceneLayers, layer)
               /\ UNCHANGED pendingLayers
          ELSE /\ pendingLayers' = Append(pendingLayers, layer)
               /\ UNCHANGED sceneLayers
       /\ layersAtom' =
            Append(layersAtom,
                   LayerInfo(layer.id, meta.description, layer.meshVertexCount))
       /\ outputs' =
            Append(outputs,
                   [Out("generate_3d_points", c, TRUE, layer.id, NoErr,
                        meshVal.warnings) EXCEPT !.spatial = spatial])

\* AwaitContinues with the layer row added to the layer list outside the try
\* block, so that it is added for a failed call too.
AwaitContinuesLeaky(c, r) ==
    IF r.ok THEN LayerArrives(c, r.layer)
    ELSE /\ ReportError(c, r.err)
         /\ layersAtom' =
                Append(layersAtom,
                       LayerInfo(nextLayerId, Programs[prog'[c]].description, 0))
         /\ UNCHANGED <<activeLayers, layerMeta, sceneLayers, pendingLayers>>

\* AwaitContinues with the metadata entry written in a finally block, so that
\* a failed call leaves an entry too.
AwaitContinuesListsFailed(c, r) ==
    IF r.ok THEN LayerArrives(c, r.layer)
    ELSE /\ ReportError(c, r.err)
         /\ layerMeta' =
                MapSet(layerMeta,
                       [ id |-> nextLayerId,
                         bounds |-> computeLayerBounds(NoLayer).bounds,
                         meshVertexCount |-> 0,
                         description |-> Programs[prog'[c]].description ])
         /\ UNCHANGED <<activeLayers, sceneLayers, pendingLayers, layersAtom>>

\* The rest of the generate_3d_points handler once the promise has settled
\* with r: the try block after the await, or the catch branch.
AwaitContinues(c, r) ==
    IF r.ok THEN LayerArrives(c, r.layer)
    ELSE /\ ReportError(c, r.err)
         /\ UNCHANGED storeVars

Rejection(err) == [ok |-> FALSE, err |-> err, layer |-> NoLayer]

\* onToolCall for generate_3d_points, up to the await: executeProceduralCode
\* validates and either rejects (the catch branch runs) or starts the sandbox.
GenerateCall(c, p) ==
    /\ c = Len(started) + 1
    /\ c \in Calls
    /\ c <= session.calls
    /\ p \in session.progs
    /\ LET r == ExecStart(Programs[p]) IN
        /\ started' = Append(started, c)
        /\ prog' = [prog EXCEPT ![c] = p]
        /\ IF r.spawn
           THEN /\ worker' = [worker EXCEPT ![c] = "running"]
                /\ timer' = [timer EXCEPT ![c] = "armed"]
                /\ posted' = [posted EXCEPT ![c] = TRUE]
           ELSE UNCHANGED <<worker, timer, posted>>
        /\ IF r.err # NoErr
           THEN /\ promise' = [promise EXCEPT ![c] = "rejected"]
                /\ AwaitContinues(c, Rejection(r.err))
           ELSE /\ promise' = [promise EXCEPT ![c] = "pending"]
                /\ UNCHANGED <<outputs, storeVars>>
    /\ UNCHANGED <<args, ret, session, engine, nextLayerId, inbox, otherCalls, handle>>

\* The sandbox: self.onmessage runs the posted code and its reply (or its
\* uncaught error) is queued for the main thread.
WorkerRuns(c) ==
    /\ worker[c] = "running"
    /\ posted[c]
    /\ LET ev == WorkerOnMessage(Programs[prog[c]], engine = "v8") IN
        /\ ev.type # "none"
        /\ inbox' = [inbox EXCEPT ![c] = ev]
    /\ worker' = [worker EXCEPT ![c] = "finished"]
    /\ UNCHANGED <<args, ret, session, engine, nextLayerId, started, prog, promise, timer, posted,
                   outputs, otherCalls, storeVars, handle>>

\* WorkerMessage without clearTimeout: the timer stays armed after the reply.
WorkerMessageKeepsTimer(c) ==
    /\ inbox[c].type = "message"
    /\ worker' = [worker EXCEPT ![c] = "terminated"]
    /\ inbox' = [inbox EXCEPT ![c] = NoEvent]
    /\ LET r == OnReply(inbox[c], Programs[prog[c]], nextLayerId) IN
        /\ nextLayerId' = r.nextId
        /\ IF promise[c] # "pending"
           THEN UNCHANGED <<promise, outputs, storeVars>>
           ELSE /\ promise' = [promise EXCEPT
                                ![c] = IF r.ok THEN "fulfilled" ELSE "rejected"]
                /\ AwaitContinues(c, r)
    /\ UNCHANGED <<args, ret, session, engine, started, prog, posted, otherCalls,
                   handle, timer>>

\* worker.onmessage on the main thread.
WorkerMessage(c) ==
    /\ inbox[c].type = "message"
    /\ timer' = [timer EXCEPT ![c] = IF @ = "armed" THEN "cleared" ELSE @]
    /\ worker' = [worker EXCEPT ![c] = "terminated"]
    /\ inbox' = [inbox EXCEPT ![c] = NoEvent]
    /\ LET r == OnReply(inbox[c], Programs[prog[c]], nextLayerId) IN
        /\ nextLayerId' = r.nextId
        /\ IF promise[c] # "pending"
           THEN UNCHANGED <<promise, outputs, storeVars>>
           ELSE /\ promise' = [promise EXCEPT
                                ![c] = IF r.ok THEN "fulfilled" ELSE "rejected"]
                /\ AwaitContinues(c, r)
    /\ UNCHANGED <<args, ret, session, engine, started, prog, posted, otherCalls, handle>>

\* worker.onerror on the main thread.
WorkerError(c) ==
    /\ inbox[c].type = "error"
    /\ timer' = [timer EXCEPT ![c] = IF @ = "armed" THEN "cleared" ELSE @]
    /\ worker' = [worker EXCEPT ![c] = "terminated"]
    /\ inbox' = [inbox EXCEPT ![c] = NoEvent]
    /\ IF promise[c] # "pending"
       THEN UNCHANGED <<promise, outputs, storeVars>>
       ELSE /\ promise' = [promise EXCEPT ![c] = "rejected"]
            /\ AwaitContinues(c, Rejection(Err("worker", inbox[c].message)))
    /\ UNCHANGED <<args, ret, session, engine, nextLayerId, started, prog, posted, otherCalls,
                   handle>>

\* Timeout with the promise rejected but the worker left running.
TimeoutLeavesWorker(c) ==
    /\ timer[c] = "armed"
    /\ timer' = [timer EXCEPT ![c] = "fired"]
    /\ IF promise[c] # "pending"
       THEN UNCHANGED <<promise, outputs, storeVars>>
       ELSE /\ promise' = [promise EXCEPT ![c] = "rejected"]
            /\ AwaitContinues(c, Rejection(Err("timeout", "300s")))
    /\ UNCHANGED <<args, ret, session, engine, nextLayerId, started, prog, posted, otherCalls,
                   handle, worker, inbox>>

\* The setTimeout callback.  Terminating the worker empties the queue of its
\* messages that the main thread has not dispatched yet.
Timeout(c) ==
    /\ timer[c] = "armed"
    /\ timer' = [timer EXCEPT ![c] = "fired"]
    /\ worker' = [worker EXCEPT ![c] = "terminated"]
    /\ inbox' = [inbox EXCEPT ![c] = NoEvent]
    /\ IF promise[c] # "pending"
       THEN UNCHANGED <<promise, outputs, storeVars>>
       ELSE /\ promise' = [promise EXCEPT ![c] = "rejected"]
            /\ AwaitContinues(c, Rejection(Err("timeout", "300s")))
    /\ UNCHANGED <<args, ret, session, engine, nextLayerId, started, prog, posted, otherCalls,
                   handle>>

\* onToolCall for remove_layer.
RemoveLayerCall(id) ==
    /\ otherCalls < MaxOtherCalls
    /\ otherCalls' = IF handle THEN otherCalls + 1 ELSE otherCalls
    /\ IF ~handle THEN UNCHANGED <<outputs, storeVars>>
       ELSE IF id \in Ids(sceneLayers)
       THEN /\ sceneLayers' = removeLayer(sceneLayers, id)
            /\ activeLayers' = MapDelete(activeLayers, id)
            /\ layerMeta' = MapDelete(layerMeta, id)
            /\ layersAtom' = Without(layersAtom, id)
            /\ outputs' = Append(outputs, Out("remove_layer", 0, TRUE, id, NoErr, <<>>))
            /\ UNCHANGED pendingLayers
       ELSE /\ outputs' =
                Append(outputs,
                       Out("remove_layer", 0, FALSE, id, Err("not-found", ""), <<>>))
            /\ UNCHANGED storeVars
    /\ UNCHANGED <<args, ret, session, engine, nextLayerId, callVars, handle>>

\* scene.clearLayers: removeLayer for every key.
RECURSIVE clearLayers(_, _)
clearLayers(scene, keys) ==
    IF keys = <<>> THEN scene
    ELSE clearLayers(removeLayer(scene, Head(keys)), Tail(keys))

\* onToolCall for clear_all_layers.
ClearCall ==
    /\ otherCalls < MaxOtherCalls
    /\ otherCalls' = IF handle THEN otherCalls + 1 ELSE otherCalls
    /\ IF ~handle THEN UNCHANGED <<outputs, storeVars>>
       ELSE /\ sceneLayers' = clearLayers(sceneLayers, SeqIds(sceneLayers))
            /\ activeLayers' = <<>>
            /\ layerMeta' = <<>>
            /\ layersAtom' = <<>>
            /\ outputs' =
                Append(outputs,
                       [Out("clear_all_layers", 0, TRUE, 0 - 1, NoErr, <<>>)
                            EXCEPT !.count = Len(sceneLayers)])
            /\ UNCHANGED pendingLayers
    /\ UNCHANGED <<args, ret, session, engine, nextLayerId, callVars, handle>>

\* handleSceneReady(handle) when a viewer mounts: the new scene is empty, and
\* flushPendingLayers replays the store into it.
SceneReady ==
    /\ ~handle
    /\ handle' = TRUE
    /\ LET active == MapSetAll(activeLayers, pendingLayers) IN
        /\ activeLayers' = active
        /\ pendingLayers' = <<>>
        /\ sceneLayers' = AddLayers(<<>>, active)
        /\ layersAtom' =
            [i \in 1..Len(active) |->
                LayerInfo(active[i].id, Description(layerMeta, active[i].id),
                          active[i].meshVertexCount)]
    /\ UNCHANGED <<args, ret, session, engine, nextLayerId, callVars, outputs, otherCalls, layerMeta>>

\* handleSceneReady(null) when the viewer unmounts and disposes its scene.
SceneDisposed ==
    /\ handle
    /\ handle' = FALSE
    /\ sceneLayers' = <<>>
    /\ UNCHANGED <<args, ret, session, engine, nextLayerId, callVars, outputs, otherCalls,
                   activeLayers, layerMeta, pendingLayers, layersAtom>>

Next ==
    \/ \E c \in Calls, p \in ProgIds : GenerateCall(c, p)
    \/ \E c \in Calls : WorkerRuns(c)
    \/ \E c \in Calls : WorkerMessage(c)
    \/ \E c \in Calls : WorkerError(c)
    \/ \E c \in Calls : Timeout(c)
    \/ \E id \in LayerIds : RemoveLayerCall(id)
    \/ ClearCall
    \/ SceneReady
    \/ SceneDisposed

Spec == Init /\ [][Next]_vars

\* Any one program of the catalogue, in either kind of browser.
SpecCatalog == InitCatalog /\ [][Next]_vars

\* The concurrent session with the browser's timer guarantee: a timer that
\* stays armed fires.
SpecLive == Spec /\ \A c \in Calls : WF_vars(Timeout(c))

\* ------------------------------------------------------------ observations

\* The tool outputs that answer generate call c.
OutputsOf(c) ==
    SelectSeq(outputs, LAMBDA o : o.tool = "generate_3d_points" /\ o.call = c)

\* The outputs of the generate calls, in delivery order.
GenerateOutputs == SelectSeq(outputs, LAMBDA o : o.tool = "generate_3d_points")

\* Call c ended in an error of this kind.
FailedWith(c, kind) ==
    /\ Len(OutputsOf(c)) = 1
    /\ ~OutputsOf(c)[1].ok
    /\ OutputsOf(c)[1].err.kind = kind

\* Every layer id the store holds anywhere.
StoreIds ==
    Ids(activeLayers) \cup Ids(layerMeta) \cup Ids(sceneLayers)
        \cup Ids(pendingLayers) \cup Ids(layersAtom)

\* The step changes the state of call c.
CallStep(c) ==
    <<prog[c], promise[c], worker[c], timer[c], posted[c], inbox[c]>>' #
        <<prog[c], promise[c], worker[c], timer[c], posted[c], inbox[c]>>

\* Call c has a live sandbox.
Live(c) == worker[c] \in {"running", "finished"}

\* ------------------------------------------------------------ claims

C2_ValidationBeforeSandbox ==
    \A c \in Calls :
        (prog[c] # 0 /\ ~validateCode(Programs[prog[c]]).valid) =>
            /\ worker[c] = "none"
            /\ timer[c] = "none"
            /\ ~posted[c]
            /\ inbox[c] = NoEvent
            /\ promise[c] = "rejected"
            /\ FailedWith(c, "validation")

\* fetch('https://x') was rejected without a sandbox.
C2_Witness ==
    \E c \in Calls :
        /\ prog[c] = 2
        /\ FailedWith(c, "validation")
        /\ worker[c] = "none" /\ timer[c] = "none" /\ ~posted[c]

\* C3: layer ids come from one counter that only increases: the ids of the
\* layers created, in creation order, are strictly increasing and below the
\* counter, the counter never decreases, and so no id is assigned twice, also
\* after a remove or a clear.
C3_IdsIncrease ==
    /\ [][nextLayerId' >= nextLayerId]_vars
    /\ [](LET created == SelectSeq(GenerateOutputs, LAMBDA o : o.ok) IN
            /\ \A i, j \in 1..Len(created) :
                    i < j => created[i].layerId < created[j].layerId
            /\ \A i \in 1..Len(created) : created[i].layerId < nextLayerId
            /\ \A id \in StoreIds : id < nextLayerId)

\* A layer was created, a remove or clear emptied the store, and a second
\* layer was created after it.
C3_Witness ==
    /\ Len(outputs) = 3
    /\ outputs[1].tool = "generate_3d_points" /\ outputs[1].ok
    /\ outputs[2].tool \in {"remove_layer", "clear_all_layers"} /\ outputs[2].ok
    /\ outputs[3].tool = "generate_3d_points" /\ outputs[3].ok
    /\ Ids(activeLayers) = {outputs[3].layerId}

\* C4: at most one generation has a live sandbox at any time.
C4_OneInFlight == Cardinality({c \in Calls : Live(c)}) <= 1

\* C5: the outcomes of generate calls are delivered in the order the calls
\* started (calls are numbered in start order).
C5_InStartOrder ==
    \A i, j \in 1..Len(GenerateOutputs) :
        i < j => GenerateOutputs[i].call < GenerateOutputs[j].call

\* C6: the timer is started together with the worker, and once it has fired
\* the worker is terminated with its pending reply dropped, the call has
\* failed with a timeout error, and that error is the call's only outcome: no
\* layer is created for the call, whatever the sandbox would have produced.
C6_TimeoutFailsCall ==
    \A c \in Calls :
        /\ (worker[c] # "none") <=> (timer[c] # "none")
        /\ timer[c] = "fired" =>
            /\ worker[c] = "terminated"
            /\ inbox[c] = NoEvent
            /\ promise[c] = "rejected"
            /\ FailedWith(c, "timeout")

\* The one-triangle program, which the sandbox runs to a valid mesh, timed out.
C6_Witness ==
    \E c \in Calls :
        /\ prog[c] = 5
        /\ timer[c] = "fired"
        /\ FailedWith(c, "timeout")

\* A step that cancels generation c: the sandbox is terminated, the call ends
\* with a cancelled error and the store is unchanged.
CancelStep(c) ==
    /\ Next
    /\ worker'[c] = "terminated"
    /\ promise'[c] = "rejected"
    /\ Len(outputs') = Len(outputs) + 1
    /\ outputs'[Len(outputs')].call = c
    /\ outputs'[Len(outputs')].err.kind = "cancelled"
    /\ UNCHANGED storeVars

\* C7: an outstanding generation can be cancelled: whenever a call is pending,
\* a step is possible that terminates its sandbox, ends the call with a
\* cancelled error and adds no layer.
C7_CancelAvailable ==
    \A c \in Calls : promise[c] = "pending" => ENABLED CancelStep(c)

\* What the sandbox's run of the code of call c comes to.
RunOf(c) == RunBody(Programs[prog[c]].body, 1, FreshMesh)

\* C8: when the user code throws and the sandbox's answer has been handled,
\* the call has failed with a runtime error (so no layer holds the partial
\* mesh) that carries the message of a thrown Error and reports the vertices
\* emitted before the throw, when there were any.
C8_ThrowReportsCount ==
    \A c \in Calls :
        (prog[c] # 0 /\ timer[c] = "cleared" /\ RunOf(c).end = "threw") =>
            LET thrown == Programs[prog[c]].body[RunOf(c).at]
                count == RunOf(c).mesh.meshCount
            IN /\ FailedWith(c, "runtime")
               /\ thrown.value = "Error" =>
                    OutputsOf(c)[1].err.reason = thrown.message
               /\ count > 0 =>
                    /\ OutputsOf(c)[1].err.hasPartial
                    /\ OutputsOf(c)[1].err.partial = count

\* C9: a runtime error that reports a line reports the line of the user code
\* on which the exception was thrown, with the text of that line.
C9_LineIsUserLine ==
    \A c \in Calls :
        (prog[c] # 0 /\ FailedWith(c, "runtime") /\ OutputsOf(c)[1].err.hasLine) =>
            LET thrown == Programs[prog[c]].body[RunOf(c).at] IN
            /\ OutputsOf(c)[1].err.line = thrown.line
            /\ OutputsOf(c)[1].err.text =
                    Trim(Programs[prog[c]].lines[thrown.line])

\* The facts about the mesh a program emits, read off its statements.
EmittedVertices(body) ==
    SumSeq([i \in 1..Len(body) |-> 3 * body[i].n], 1)
NonFinitePosition(body) ==
    \E i \in 1..Len(body) :
        body[i].n > 0 /\ \E k \in 1..12 : NotFinite((body[i].p \o body[i].p4)[k])
FarPosition(body) ==
    \E i \in 1..Len(body) :
        body[i].n > 0 /\ \E k \in 1..12 : OutOfBounds((body[i].p \o body[i].p4)[k])
NonFiniteColour(body) ==
    \E i \in 1..Len(body) :
        body[i].n > 0 /\ \E k \in 1..3 : NotFinite(body[i].rgb[k])
NonFiniteNormal(body) ==
    /\ \E i \in 1..Len(body) : body[i].op = "emitSmoothTriangle"
    /\ \E i \in 1..Len(body) :
        body[i].n > 0 /\ \E k \in 1..9 : NotFinite(body[i].nrm[k])
SomeZeroArea(body) ==
    \E i \in 1..Len(body) : body[i].n > 0 /\ ZeroArea(body[i].p)

\* The warnings a mesh with these statements deserves, the degenerate-triangle
\* one (found by sampling) apart.
ExpectedWarnings(body) ==
    (IF EmittedVertices(body) = 0 THEN {"zero-vertices"} ELSE {})
    \cup (IF EmittedVertices(body) >= WARN_VERTEX_COUNT
          THEN {"slow-to-render"} ELSE {})
    \cup (IF FarPosition(body) THEN {"out-of-bounds"} ELSE {})
    \cup (IF NonFiniteColour(body) THEN {"nan-colors"} ELSE {})
    \cup (IF NonFiniteNormal(body) THEN {"nan-normals"} ELSE {})

Kinds(findings) == {findings[i].kind : i \in 1..Len(findings)}

Others(map, id) == SelectSeq(map, LAMBDA e : e.id # id)

\* C11: a remove_layer call that removes layer id deletes only that layer:
\* in the active layers, the layer metadata, the scene, the pending layers and
\* the layer list every entry of another layer is kept as it was and in the
\* same order, and the removed id is listed nowhere among the first four.
C11_RemoveOnlyThat ==
    [][\A id \in LayerIds :
        outputs' = Append(outputs, Out("remove_layer", 0, TRUE, id, NoErr, <<>>)) =>
            /\ Others(activeLayers', id) = Others(activeLayers, id)
            /\ Others(layerMeta', id) = Others(layerMeta, id)
            /\ Others(sceneLayers', id) = Others(sceneLayers, id)
            /\ Others(layersAtom', id) = Others(layersAtom, id)
            /\ pendingLayers' = pendingLayers
            /\ id \notin Ids(activeLayers') \cup Ids(layerMeta')
                            \cup Ids(sceneLayers') \cup Ids(layersAtom')]_vars

\* A layer was removed from a store of two and the other one is still there.
C11_Witness ==
    /\ outputs # <<>>
    /\ outputs[Len(outputs)].tool = "remove_layer"
    /\ outputs[Len(outputs)].ok
    /\ Len(activeLayers) = 1 /\ Len(layerMeta) = 1
    /\ Len(sceneLayers) = 1 /\ Len(layersAtom) = 1
    /\ activeLayers[1].id # outputs[Len(outputs)].layerId
    /\ activeLayers[1].id < outputs[Len(outputs)].layerId

\* The layer the sandbox's complete run of the code of call c makes.
CompleteLayer(c, id) ==
    MakeLayer(WorkerOnMessage(Programs[prog[c]], TRUE), id)

\* C12: every entry of the layer metadata (what list_meta sends) belongs to a
\* generate call that has returned successfully, never to one that is still
\* running or has failed, and it carries the vertex count and the bounds of
\* that call's complete mesh; an entry never changes while it is listed.
C12_MetaOnlyAfterSuccess ==
    /\ [](\A i \in 1..Len(layerMeta) :
            \E c \in Calls :
                /\ promise[c] = "fulfilled"
                /\ RunOf(c).end = "done"
                /\ Len(OutputsOf(c)) = 1
                /\ OutputsOf(c)[1].ok
                /\ OutputsOf(c)[1].layerId = layerMeta[i].id
                /\ layerMeta[i].meshVertexCount = RunOf(c).mesh.meshCount
                /\ layerMeta[i].bounds =
                    computeLayerBounds(CompleteLayer(c, layerMeta[i].id)).bounds)
    /\ [][\A i \in 1..Len(layerMeta), j \in 1..Len(layerMeta') :
            layerMeta[i].id = layerMeta'[j].id => layerMeta[i] = layerMeta'[j]]_vars

\* One call's layer is listed while another call's sandbox has finished its
\* mesh, which is not delivered yet.
C12_Witness ==
    \E c, d \in Calls :
        /\ promise[c] = "fulfilled"
        /\ promise[d] = "pending"
        /\ worker[d] = "finished"
        /\ inbox[d] # NoEvent /\ ~inbox[d].error
        /\ Len(layerMeta) = 1

\* Number of vertices in the triangle runs of a mesh.
RunVertices(tris) == SumSeq([i \in 1..Len(tris) |-> 3 * tris[i].n], 1)

NearUnitNormal(run, j) ==
    LET x == run.nrm[3 * j + 1]
        y == run.nrm[3 * j + 2]
        z == run.nrm[3 * j + 3]
        len2 == x.v * x.v + y.v * y.v + z.v * z.v
    IN /\ IsFinite(x) /\ IsFinite(y) /\ IsFinite(z)
       /\ 1 <= len2 /\ len2 <= 9

MaxCoord == 1

Coords == {Num(k) : k \in (0 - 1)..MaxCoord}
Points == {<<x, y, z>> : x \in Coords, y \in Coords, z \in Coords}
Run(p, n) == [p |-> p, rgb |-> White, nrm |-> Zero9, n |-> n]

Diagonal == {<<x, x, x>> : x \in Coords}

\* The meshes computeLayerBounds is tried on: no vertex, one triangle with two
\* corners anywhere on the points and the third on the diagonal, and a
\* triangle before or after a run of two triangles elsewhere.
BoundsMeshes ==
    {<<>>}
    \cup {<<Run(a \o b \o c, 1)>> : a \in Points, b \in Points, c \in Diagonal}
    \cup {<<Run(a \o b \o a, 1), Run(ShiftedTri(0 - 3), 2)>> :
            a \in Points, b \in Points}
    \cup {<<Run(ShiftedTri(2), 2), Run(a \o b \o a, 1)>> :
            a \in Points, b \in Points}

InitBounds ==
    /\ InitStore(CoreSession)
    /\ args \in {[fn |-> "computeLayerBounds", layer |-> MeshLayer(0, tris)] :
                    tris \in BoundsMeshes}
    /\ ret = <<>>

\* computeLayerBounds(layer) is called.
CallComputeLayerBounds ==
    /\ args.fn = "computeLayerBounds"
    /\ ret = <<>>
    /\ ret' = <<computeLayerBounds(args.layer)>>
    /\ UNCHANGED <<args, session, engine, nextLayerId, callVars, outputs,
                   otherCalls, storeVars, handle>>

SpecBounds == InitBounds /\ [][CallComputeLayerBounds]_vars

\* The values of axis k (1, 2, 3) of the vertices of a mesh.
VertexValues(tris, k) ==
    {tris[i].p[3 * j + k] : i \in 1..Len(tris), j \in 0..2}

\* C15: for a mesh with a vertex, computeLayerBounds returns on every axis a
\* min and a max that enclose every vertex and are each the value of some
\* vertex, and the center is half their sum; for a mesh without vertices min,
\* max and center are all zero.
C15_BoundsEnclose ==
    ret # <<>> =>
        LET b == ret[1].bounds
            tris == args.layer.tris
        IN /\ ret[1].meshVertexCount = args.layer.meshVertexCount
           /\ IF args.layer.meshVertexCount = 0
              THEN b.min = Zero3 /\ b.max = Zero3 /\ b.center = Zero3
              ELSE \A k \in 1..3 :
                    /\ IsFinite(b.min[k]) /\ IsFinite(b.max[k])
                    /\ IsFinite(b.center[k])
                    /\ \A x \in VertexValues(tris, k) :
                            b.min[k].v <= x.v /\ x.v <= b.max[k].v
                    /\ b.min[k] \in VertexValues(tris, k)
                    /\ b.max[k] \in VertexValues(tris, k)
                    /\ 2 * b.center[k].v = b.min[k].v + b.max[k].v

\* Bounds were computed for a mesh of two runs whose box is wider on x than
\* on y.
C15_Witness ==
    /\ ret # <<>>
    /\ Len(args.layer.tris) = 2
    /\ ret[1].bounds.min[1] = Num(0 - 3)
    /\ ret[1].bounds.max[1] = Num(1)
    /\ ret[1].bounds.center[1] = Num(0 - 1)
    /\ ret[1].bounds.min[2] = Num(0)
    /\ ret[1].bounds.max[2] = Num(1)

\* ------------------------------------------------------------ boxes alone

\* The intervals and the boxes tried: the ends of an interval are -1, 0 or
\* MaxCoord.
BoxCoords == {Num(0 - 1), Num(0), Num(MaxCoord)}
Intervals == {<<lo, hi>> \in BoxCoords \X BoxCoords : lo.v <= hi.v}
Box(ix, iy, iz) ==
    [ min |-> <<ix[1], iy[1], iz[1]>>, max |-> <<ix[2], iy[2], iz[2]>>,
      center |-> <<Mid(ix[1], ix[2]), Mid(iy[1], iy[2]), Mid(iz[1], iz[2])>> ]
Boxes == {Box(ix, iy, iz) : ix \in Intervals, iy \in Intervals, iz \in Intervals}

InitAabb ==
    /\ InitStore(CoreSession)
    /\ args \in {[fn |-> "aabb", a |-> a, b |-> b] : a \in Boxes, b \in Boxes}
    /\ ret = <<>>

\* The map callback of analyzeSpatialRelationships, call by call:
\* aabbOverlaps(a, b) first.
CallAabbOverlaps ==
    /\ args.fn = "aabb"
    /\ ret = <<>>
    /\ ret' = <<aabbOverlaps(args.a, args.b)>>
    /\ UNCHANGED <<args, session, engine, nextLayerId, callVars, outputs,
                   otherCalls, storeVars, handle>>

\* computePenetration(a, b), called for boxes reported as overlapping.
CallComputePenetration ==
    /\ args.fn = "aabb"
    /\ Len(ret) = 1 /\ ret[1]
    /\ ret' = Append(ret, computePenetration(args.a, args.b))
    /\ UNCHANGED <<args, session, engine, nextLayerId, callVars, outputs,
                   otherCalls, storeVars, handle>>

\* computeGap(a, b), called for boxes reported as not overlapping.
CallComputeGap ==
    /\ args.fn = "aabb"
    /\ Len(ret) = 1 /\ ~ret[1]
    /\ ret' = Append(ret, computeGap(args.a, args.b))
    /\ UNCHANGED <<args, session, engine, nextLayerId, callVars, outputs,
                   otherCalls, storeVars, handle>>

\* computeGap(b, a), the same pair the other way round.
CallComputeGapSwapped ==
    /\ args.fn = "aabb"
    /\ Len(ret) = 2 /\ ~ret[1]
    /\ ret' = Append(ret, computeGap(args.b, args.a))
    /\ UNCHANGED <<args, session, engine, nextLayerId, callVars, outputs,
                   otherCalls, storeVars, handle>>

NextAabb ==
    \/ CallAabbOverlaps
    \/ CallComputePenetration
    \/ CallComputeGap
    \/ CallComputeGapSwapped

SpecAabb == InitAabb /\ [][NextAabb]_vars

\* The extent on axis k of the intersection of boxes a and b, and their
\* separation on that axis, in halves.
Extent(a, b, k) ==
    Min(a.max[k].v, b.max[k].v) - Max(a.min[k].v, b.min[k].v)
Separation(a, b, k) ==
    Max(0, Max(a.min[k].v - b.max[k].v, b.min[k].v - a.max[k].v))
AxisIndex(axis) == CHOOSE k \in 1..3 : AxisNames[k] = axis

\* C16: two boxes are reported as overlapping exactly when their
\* intersection has a strictly positive extent on each of the three axes.
C16_OverlapIsPositive ==
    Len(ret) >= 1 /\ args.fn = "aabb" =>
        (ret[1] <=> \A k \in 1..3 : Extent(args.a, args.b, k) > 0)

\* C17: for two boxes reported as overlapping, the reported penetration is on
\* an axis with the smallest extent of the intersection, its magnitude is that
\* extent, and the magnitude is strictly positive.
C17_PenetrationIsShallowest ==
    (Len(ret) = 2 /\ args.fn = "aabb" /\ ret[1]) =>
        LET p == ret[2] IN
        /\ IsFinite(p.gap)
        /\ p.gap.v = Extent(args.a, args.b, AxisIndex(p.axis))
        /\ \A k \in 1..3 : p.gap.v <= Extent(args.a, args.b, k)
        /\ p.gap.v > 0

MaxPrior == 3

\* Unit cubes in a row along X, two cubes to either side of the origin.
MetaBoxes ==
    {Box(<<Num(x), Num(x + 1)>>, <<Num(0), Num(1)>>, <<Num(0), Num(1)>>) :
        x \in (0 - 2)..2}

Descriptions == <<"first", "second", "third", "fourth", "fifth">>

\* The LayerMeta of layer id with the given box.
Meta(id, box) ==
    [ id |-> id, bounds |-> box, meshVertexCount |-> 36,
      description |-> Descriptions[(id % 5) + 1] ]

\* The metadata lists of n layers, in insertion order: ids 0 .. n-1.
MetaLists(n) ==
    {[i \in 1..n |-> Meta(i - 1, boxes[i])] : boxes \in [1..n -> MetaBoxes]}

InitSpatial ==
    /\ InitStore(CoreSession)
    /\ \E n \in 0..MaxPrior :
        args \in {[ fn |-> "analyzeSpatialRelationships",
                    newLayer |-> Meta(n, box), existingLayers |-> existing ] :
                    box \in MetaBoxes, existing \in MetaLists(n)}
    /\ ret = <<>>

\* analyzeSpatialRelationships(newLayer, existingLayers) is called.
CallAnalyzeSpatialRelationships ==
    /\ args.fn = "analyzeSpatialRelationships"
    /\ ret = <<>>
    /\ ret' = <<analyzeSpatialRelationships(args.newLayer, args.existingLayers)>>
    /\ UNCHANGED <<args, session, engine, nextLayerId, callVars, outputs,
                   otherCalls, storeVars, handle>>

SpecSpatial == InitSpatial /\ [][CallAnalyzeSpatialRelationships]_vars

\* The square of the distance between the centers of two layers, in quarters.
CenterGap(m1, m2) ==
    LET d(k) == m1.bounds.center[k].v - m2.bounds.center[k].v
    IN d(1) * d(1) + d(2) * d(2) + d(3) * d(3)

\* C19: the analysis of a new layer against N >= 1 prior layers has exactly N
\* relationships, in the prior layers' insertion order, and its nearest layer
\* is a prior layer at the smallest center distance, the first such in
\* insertion order; against no prior layer there is no analysis.
C19_AnalysisListsPriors ==
    (ret # <<>> /\ args.fn = "analyzeSpatialRelationships") =>
        LET r == ret[1]
            new == args.newLayer
            prior == args.existingLayers
        IN IF Len(prior) = 0 THEN ~r.present
           ELSE /\ r.present
                /\ Len(r.relationships) = Len(prior)
                /\ \A i \in 1..Len(prior) :
                        /\ r.relationships[i].id = prior[i].id
                        /\ r.relationships[i].centerDistance.v =
                                CenterGap(new, prior[i])
                /\ \E i \in 1..Len(prior) :
                        /\ r.nearestId = prior[i].id
                        /\ r.nearestDescription = prior[i].description
                        /\ \A j \in 1..Len(prior) :
                                CenterGap(new, prior[i]) <= CenterGap(new, prior[j])
                        /\ \A j \in 1..(i - 1) :
                                CenterGap(new, prior[i]) < CenterGap(new, prior[j])

\* Three prior layers, the second and the third equally near and nearer than
\* the first: the second is the nearest.
C19_Witness ==
    /\ ret # <<>> /\ args.fn = "analyzeSpatialRelationships"
    /\ Len(args.existingLayers) = 3
    /\ CenterGap(args.newLayer, args.existingLayers[2]) =
            CenterGap(args.newLayer, args.existingLayers[3])
    /\ CenterGap(args.newLayer, args.existingLayers[2]) > 0
    /\ CenterGap(args.newLayer, args.existingLayers[1]) >
            CenterGap(args.newLayer, args.existingLayers[2])
    /\ ret[1].nearestId = args.existingLayers[2].id
    /\ Len(ret[1].relationships) = 3

\* ------------------------------------------------------------ validator alone

\* Identifiers that are not blocked, some of them close to blocked ones.
AllowedNames == {"box", "emitTriangle", "Fetch", "fetchData", "evaluate"}

\* String values: the four blocked prefixes and values close to them.
LiteralValues ==
    { <<"d", "a", "t", "a", ":", "x">>, <<"b", "l", "o", "b", ":">>,
      <<"h", "t", "t", "p", ":", "/">>, <<"h", "t", "t", "p", "s", ":", "/">>,
      <<"h", "t", "t", "p">>, <<"h", "t", "t", "p", "s">>,
      <<"x", "h", "t", "t", "p", ":">>, <<"H", "T", "T", "P", ":">>,
      <<"d", "a", "t", "a">>, <<"f", "t", "p", ":">>, <<>> }

\* The innermost nodes tried at depth d: identifiers, strings, a dynamic
\* import, a number and `this`.
Leaves(d) ==
    {Identifier(n, d) : n \in BLOCKED_IDENTIFIERS \cup AllowedNames}
    \cup {StringLiteral(v, d) : v \in LiteralValues}
    \cup {Node("ImportExpression", d), Node("Literal", d),
          Node("ThisExpression", d)}

AllowedLeaves(d) ==
    {Identifier(n, d) : n \in AllowedNames}
    \cup {StringLiteral(<<"h", "t", "t", "p">>, d), Node("Literal", d)}

\* The Program node and k - 1 blocks nested in one another: depths 0 .. k-1.
Wrappers(k) ==
    [i \in 1..k |-> Node(IF i = 1 THEN "Program" ELSE "BlockStatement", i - 1)]

\* The nesting depths tried for the innermost nodes.
LeafDepths ==
    {1, 2, MAX_AST_DEPTH - 1, MAX_AST_DEPTH, MAX_AST_DEPTH + 1,
     MAX_AST_DEPTH + 2}

\* The syntax trees tried, as walkAst visits them: one innermost node of any
\* kind, or an allowed node followed by a sibling of any kind.
Asts ==
    {Wrappers(k) \o <<leaf>> : k \in LeafDepths, leaf \in UNION {Leaves(d) : d \in LeafDepths}}
    \cup {Wrappers(k) \o <<first, second>> :
            k \in {1, MAX_AST_DEPTH},
            first \in UNION {AllowedLeaves(d) : d \in {1, MAX_AST_DEPTH}},
            second \in UNION {Leaves(d) : d \in {1, MAX_AST_DEPTH}}}

\* The node lists that are the pre-order of a tree: a node is at most one
\* level deeper than the node before it, and only the Program is at depth 0.
WellNested(nodes) ==
    \A i \in 2..Len(nodes) :
        nodes[i].depth <= nodes[i - 1].depth + 1 /\ nodes[i].depth >= 1

Sources ==
    {Code(TRUE, nodes, <<>>, <<>>, "") : nodes \in {a \in Asts : WellNested(a)}}
    \cup {Code(FALSE, <<>>, <<>>, <<>>, "")}

InitValidate ==
    /\ InitStore(CoreSession)
    /\ args \in {[fn |-> "validateCode", code |-> code] : code \in Sources}
    /\ ret = <<>>

\* validateCode(code) is called.
CallValidateCode ==
    /\ args.fn = "validateCode"
    /\ ret = <<>>
    /\ ret' = <<validateCode(args.code)>>
    /\ UNCHANGED <<args, session, engine, nextLayerId, callVars, outputs,
                   otherCalls, storeVars, handle>>

SpecValidate == InitValidate /\ [][CallValidateCode]_vars

\* What the validator must not let through: a forbidden identifier, a dynamic
\* import, a string starting with data:, blob:, http: or https:, or a node
\* nested deeper than 64 levels.
Forbidden(node) ==
    \/ node.type = "Identifier" /\ node.name \in BLOCKED_IDENTIFIERS
    \/ node.type = "ImportExpression"
    \/ /\ node.type = "Literal" /\ node.isString
       /\ \E pre \in { <<"d", "a", "t", "a", ":">>, <<"b", "l", "o", "b", ":">>,
                       <<"h", "t", "t", "p", ":">>,
                       <<"h", "t", "t", "p", "s", ":">> } :
            /\ Len(node.value) >= Len(pre)
            /\ \A i \in 1..Len(pre) : node.value[i] = pre[i]
    \/ node.depth > 64

\* C20: validateCode rejects a source that does not parse and every source
\* whose tree has, at any position, a forbidden node, and accepts every other
\* source.
C20_ValidatorRejects ==
    (ret # <<>> /\ args.fn = "validateCode") =>
        (ret[1].valid <=>
            /\ args.code.parses
            /\ \A i \in 1..Len(args.code.nodes) : ~Forbidden(args.code.nodes[i]))

\* A source whose last node, after an allowed identifier and at the deepest
\* allowed level, is a dynamic import was rejected.
C20_Witness ==
    /\ ret # <<>> /\ args.fn = "validateCode"
    /\ Len(args.code.nodes) = MAX_AST_DEPTH + 2
    /\ args.code.nodes[MAX_AST_DEPTH + 1] = Identifier("fetchData", MAX_AST_DEPTH)
    /\ args.code.nodes[MAX_AST_DEPTH + 2] = Node("ImportExpression", MAX_AST_DEPTH)
    /\ ~ret[1].valid

\* ------------------------------------------------------------ the empty source

\* The list_meta entry of layer id, as a set (empty when the id is not listed).
MetaOf(map, id) == {map[i] : i \in {j \in 1..Len(map) : map[j].id = id}}

ZeroBounds == [min |-> Zero3, max |-> Zero3, center |-> Zero3]

\* C21: generate on the empty source passes validation and starts a sandbox,
\* and when the sandbox's reply is handled the call succeeds: it creates a
\* layer with vertex count 0 and all-zero bounds, its output reports the
\* zero-vertices warning and nothing else, and the layer is listed in
\* list_meta.  The only failure the call can end in is the timeout.
C21_EmptySourceSucceeds ==
    [][\A c \in Calls :
        (prog'[c] = 1 /\ promise'[c] # promise[c]) =>
            \/ promise'[c] = "pending" /\ worker'[c] = "running"
            \/ promise'[c] = "rejected" /\ FailedWith(c, "timeout")'
            \/ /\ promise'[c] = "fulfilled"
               /\ LET o == outputs'[Len(outputs')] IN
                    /\ o.tool = "generate_3d_points" /\ o.call = c /\ o.ok
                    /\ o.warnings = <<Warn("zero-vertices", 0)>>
                    /\ \E m \in MetaOf(layerMeta', o.layerId) :
                            /\ m.meshVertexCount = 0
                            /\ m.bounds = ZeroBounds
                    /\ \E l \in MetaOf(activeLayers', o.layerId) :
                            l.meshVertexCount = 0 /\ l.tris = <<>>]_vars

\* The empty source produced a listed layer without vertices.
C21_Witness ==
    \E c \in Calls :
        /\ prog[c] = 1
        /\ promise[c] = "fulfilled"
        /\ Len(OutputsOf(c)) = 1
        /\ OutputsOf(c)[1].ok
        /\ OutputsOf(c)[1].warnings = <<Warn("zero-vertices", 0)>>
        /\ \E m \in MetaOf(layerMeta, OutputsOf(c)[1].layerId) :
                m.meshVertexCount = 0 /\ m.bounds = ZeroBounds

\* ------------------------------------------------------------ lathe on its own

\* Largest radius and largest number of points of a lathe profile.
MaxRadius == 2
MaxProfile == 3

\* Profile points [r, y]: a radius and a height offset.
ProfilePoints == {<<r, y>> : r \in 0..MaxRadius, y \in 0..1}
SeqsUpTo(S, n) == UNION {[1..k -> S] : k \in 0..n}
Profiles == SeqsUpTo(ProfilePoints, MaxProfile)
\* The segment counts: the default (an omitted or zero argument), 4 and 8.
SegmentCounts == {0, 4, 8}
Centres == {<<0, 0, 0>>, <<1, 1, 1>>}

InitLathe ==
    /\ InitStore(CoreSession)
    /\ args \in {[fn |-> "lathe", c |-> c, profile |-> pr, segments |-> sg] :
                    c \in Centres, pr \in Profiles, sg \in SegmentCounts}
    /\ ret = <<>>

\* The sandbox calls lathe on the fresh mesh.
CallLathe ==
    /\ args.fn = "lathe"
    /\ ret = <<>>
    /\ ret' = <<lathe(FreshMesh, args.c, args.profile, args.segments, White)>>
    /\ UNCHANGED <<args, session, engine, nextLayerId, callVars, outputs,
                   otherCalls, storeVars, handle>>

SpecLathe == InitLathe /\ [][CallLathe]_vars

\* The triangles of a mesh.
TriangleCount(m) == SumSeq([i \in 1..Len(m.tris) |-> m.tris[i].n], 1)

\* What the claim lets one angular step of the pair (r0, r1) emit.
PairTriangles(r0, r1) ==
    IF r0 # 0 /\ r1 # 0 THEN 2 ELSE IF r0 = 0 /\ r1 = 0 THEN 0 ELSE 1

\* C22: lathe emits, for each adjacent profile pair and each of the S angular
\* steps, two triangles when both radii are non-zero, one triangle when
\* exactly one of them is 0 and nothing when both are 0; a profile of fewer
\* than 2 points emits nothing.
C22_LatheCounts ==
    ret # <<>> =>
        LET profile == args.profile
            S == Segments(args.segments)
        IN /\ ret[1].meshCount = 3 * TriangleCount(ret[1])
           /\ TriangleCount(ret[1]) =
                SumSeq([p \in 1..(Len(profile) - 1) |->
                            S * PairTriangles(profile[p][1], profile[p + 1][1])],
                       1)

\* ------------------------------------------------------------ settling once

Settled(c) == promise[c] \in {"fulfilled", "rejected"}

\* The source of call c passed static validation.
PassedValidation(c) == prog[c] # 0 /\ validateCode(Programs[prog[c]]).valid

NewOutput == Len(outputs') = Len(outputs) + 1

\* C24: while a scene is attached, the layer ids list_meta reports are the
\* layer ids the scene holds, so a remove_layer call that names a listed id
\* succeeds and takes the id off the list, also for a layer generated with
\* zero vertices.
C24_MetaIsScene ==
    /\ [](handle => Ids(layerMeta) = Ids(sceneLayers))
    /\ [][(/\ handle
           /\ NewOutput
           /\ outputs'[Len(outputs')].tool = "remove_layer"
           /\ outputs'[Len(outputs')].layerId \in Ids(layerMeta))
          => /\ outputs'[Len(outputs')].ok
             /\ outputs'[Len(outputs')].layerId \notin Ids(layerMeta')]_vars

\* ------------------------------------------------------------ extrudePath on its own

\* Largest number of points of a path.
MaxPath == 3

\* Profile points [x, y] in the plane of the frame.
SectionPoints == {<<x, y>> : x \in 0..1, y \in 0..1}
Sections == SeqsUpTo(SectionPoints, MaxProfile)

\* The point after `steps` along axis k, from the origin.
AxisPoint(k, steps) == [a \in 1..3 |-> IF a = k THEN steps ELSE 0]
\* The path along axis k whose points advance by the given steps.
PathOf(k, steps) ==
    [i \in 1..(Len(steps) + 1) |-> AxisPoint(k, SumSeq(SubSeq(steps, 1, i - 1), 1))]
Paths ==
    {<<>>} \cup {PathOf(k, st) : k \in 1..3, st \in SeqsUpTo({0, 1}, MaxPath - 1)}

InitExtrude ==
    /\ InitStore(CoreSession)
    /\ args \in {[fn |-> "extrudePath", profile |-> pr, path |-> pa, closed |-> cl] :
                    pr \in Sections, pa \in Paths, cl \in BOOLEAN}
    /\ ret = <<>>

\* The sandbox calls extrudePath on the fresh mesh.
CallExtrudePath ==
    /\ args.fn = "extrudePath"
    /\ ret = <<>>
    /\ ret' = <<extrudePath(FreshMesh, args.profile, args.path, args.closed, White)>>
    /\ UNCHANGED <<args, session, engine, nextLayerId, callVars, outputs,
                   otherCalls, storeVars, handle>>

SpecExtrude == InitExtrude /\ [][CallExtrudePath]_vars

\* C25: extrudePath emits nothing when the profile or the path has fewer than
\* 2 points; otherwise, for a path of N points and a profile of P points, it
\* emits (N-1)*(P-1) quads when closed is false and (N-1)*P quads when closed
\* is true, and the last quad of each ring of a closed extrusion runs from
\* profile point P-1 back to profile point 0 of the same two rings.
C25_ExtrudeCounts ==
    ret # <<>> =>
        LET N == Len(args.path)
            P == Len(args.profile)
            tris == ret[1].tris
            perRing == IF args.closed THEN P ELSE P - 1
        IN /\ ret[1].meshCount = 3 * Len(tris)
           /\ (N < 2 \/ P < 2) => tris = <<>>
           /\ (N >= 2 /\ P >= 2) =>
                /\ Len(tris) = 2 * (N - 1) * perRing
                /\ args.closed =>
                    \A i \in 0..(N - 2) :
                        LET first == tris[2 * i * P + 1]
                            second == tris[2 * i * P + 2]
                            last == tris[2 * i * P + 2 * (P - 1) + 1]
                        IN /\ SubSeq(last.p, 4, 6) = SubSeq(first.p, 1, 3)
                           /\ SubSeq(last.p, 7, 9) = SubSeq(second.p, 7, 9)

\* A closed extrusion of a three-point profile along a path of three distinct
\* points: six quads.
C25_Witness ==
    /\ ret # <<>>
    /\ args.closed
    /\ Len(args.profile) = 3
    /\ Len(args.path) = 3 /\ args.path[1] # args.path[2] /\ args.path[2] # args.path[3]
    /\ Cardinality({args.profile[j] : j \in 1..3}) = 3
    /\ Len(ret[1].tris) = 12

\* ------------------------------------------------------------ the degenerate sample

\* Largest multiple of DEGENERATE_SAMPLE around which triangle counts are tried.
MaxSampleMultiple == 3

\* Triangle counts of the meshes: the small ones, and those within 2 of a
\* multiple of DEGENERATE_SAMPLE.
TriangleCounts ==
    0..40 \cup {k * DEGENERATE_SAMPLE + d : k \in 1..MaxSampleMultiple, d \in (0 - 2)..2}

\* A mesh of n copies of one triangle: the unit triangle or a zero-area one.
SampleMeshes ==
    {MeshLayer(0, IF n = 0 THEN <<>> ELSE <<Run(p, n)>>) :
        p \in {UnitTri, FlatTri}, n \in TriangleCounts}

InitSample ==
    /\ InitStore(CoreSession)
    /\ args \in {[fn |-> "validateMeshOutput", layer |-> l] : l \in SampleMeshes}
    /\ ret = <<>>

\* The facade validates a drained mesh.
CallValidateMeshOutput ==
    /\ args.fn = "validateMeshOutput"
    /\ ret = <<>>
    /\ ret' = <<validateMeshOutput(args.layer)>>
    /\ UNCHANGED <<args, session, engine, nextLayerId, callVars, outputs,
                   otherCalls, storeVars, handle>>

SpecSample == InitSample /\ [][CallValidateMeshOutput]_vars

\* The number a warning of this kind prints, 0 without such a warning.
WarnedCount(warnings, kind) ==
    SumSeq([i \in 1..Len(warnings) |->
                IF warnings[i].kind = kind THEN warnings[i].n ELSE 0], 1)

\* C26: the degenerate-triangle check inspects at most 1000 triangles of a
\* mesh of any size (so it never counts more than 1000 of them), and the
\* triangles it visits are 0, step, 2*step, ... up to the end of the mesh.
C26_SampleAtMost1000 ==
    ret # <<>> =>
        LET vc == args.layer.meshVertexCount
            triCount == vc \div 3
            step == SampleStep(vc)
            visited == SampledTriangles(vc)
        IN /\ Cardinality(visited) <= DEGENERATE_SAMPLE
           /\ WarnedCount(ret[1].warnings, "degenerate") <= DEGENERATE_SAMPLE
           /\ \A t \in visited : t % step = 0 /\ t < triCount
           /\ \A t \in 0..(triCount - 1) : t % step = 0 => t \in visited

\* ------------------------------------------------------------ one cell on its own

\* The corner values of a cell, in halves: inside, on the surface, outside.
CornerValues == {-2, 0, 2}
CellValues == [1..8 -> CornerValues]

InitCell ==
    /\ InitStore(CoreSession)
    /\ args \in {[fn |-> "cell", vals |-> vals] : vals \in CellValues}
    /\ ret = <<>>

\* sdfMesh processes one cell with these corner values.
CallMarchCell ==
    /\ args.fn = "cell"
    /\ ret = <<>>
    /\ ret' = <<MarchCell(args.vals)>>
    /\ UNCHANGED <<args, session, engine, nextLayerId, callVars, outputs,
                   otherCalls, storeVars, handle>>

SpecCell == InitCell /\ [][CallMarchCell]_vars

\* The edge indices a triangle list holds before its first sentinel.
RECURSIVE Listed(_, _)
Listed(tris, i) ==
    IF i > Len(tris) \/ tris[i] = -1 THEN <<>>
    ELSE <<tris[i]>> \o Listed(tris, i + 1)

\* C30: for every cube index (every pattern of inside, on-surface and outside
\* corners with finite values), bit e of the edge table entry is set exactly
\* when the two corners of edge e are on opposite sides of the surface; every
\* edge index the triangle table lists before the sentinel has its bit set,
\* and their number is a multiple of 3; hence every interpolated edge has
\* v0 # v1 and a crossing parameter v0 / (v0 - v1) in [0, 1], and no triangle
\* group is skipped for a missing edge vertex.
C30_TablesAgree ==
    ret # <<>> =>
        LET vals == args.vals
            cell == ret[1]
            listed == Listed(cell.tris, 1)
        IN /\ \A c \in 0..7 : Bit(cell.cubeIndex, c) <=> vals[c + 1] < 0
           /\ \A e \in 0..11 :
                Bit(cell.edgeMask, e) <=>
                    ((vals[edgeVerts[e + 1][1] + 1] < 0) #
                     (vals[edgeVerts[e + 1][2] + 1] < 0))
           /\ \A i \in 1..Len(listed) :
                listed[i] \in 0..11 /\ Bit(cell.edgeMask, listed[i])
           /\ Len(listed) % 3 = 0
           /\ \A e \in 1..12 :
                cell.verts[e].set =>
                    LET v0 == cell.verts[e].v0
                        den == cell.verts[e].v0 - cell.verts[e].v1
                    IN /\ den # 0
                       /\ IF den > 0 THEN 0 <= v0 /\ v0 <= den
                          ELSE den <= v0 /\ v0 <= 0
           /\ cell.emitted = cell.groups
           /\ 3 * Len(cell.emitted) = Len(listed)

\* A cell the surface passes through with its longest triangle list: five
\* triangles.
C30_Witness ==
    /\ ret # <<>>
    /\ Len(ret[1].emitted) = 5
    /\ ret[1].cubeIndex \notin {0, 255}

\* ------------------------------------------------------------ sdfMesh on its own

\* Largest resolution and largest cell size of a sampling box.
MaxResolution == 2
MaxCellSize == 2

\* Planes through the box and beside it, slabs thinner than a cell, and the
\* fields that are outside or inside everywhere.
Sdfs ==
    {Sdf("plane", k, a, 0) : k \in 1..3, a \in (0 - 3)..3}
        \cup {Sdf("slab", k, a, a + w) : k \in 1..3, a \in {0 - 2, 0}, w \in 1..2}
        \cup {Sdf("const", 1, 2, 0), Sdf("const", 1, 0 - 2, 0)}

\* Sampling boxes from (-1, -1, -1) with whole cell sizes.
SamplingBoxes ==
    {[ bMin |-> <<0 - 1, 0 - 1, 0 - 1>>,
       bMax |-> [k \in 1..3 |-> res * d[k] - 1],
       resolution |-> res ] :
        d \in [1..3 -> 1..MaxCellSize], res \in 1..MaxResolution}

InitSdf ==
    /\ InitStore(CoreSession)
    /\ args \in {[fn |-> "sdfMesh", sdf |-> f, box |-> b] :
                    f \in Sdfs, b \in SamplingBoxes}
    /\ ret = <<>>

\* Number of cells of the march.
CellCount(box) ==
    Resolution(box.resolution) * Resolution(box.resolution)
        * Resolution(box.resolution)

\* sdfMesh up to the march: the field is sampled and no cell is done yet.
SdfMeshSample ==
    /\ args.fn = "sdfMesh"
    /\ ret = <<>>
    /\ ret' = <<[mesh |-> FreshMesh, cell |-> 0]>>
    /\ UNCHANGED <<args, session, engine, nextLayerId, callVars, outputs,
                   otherCalls, storeVars, handle>>

\* One pass of the innermost loop of the march: the next cell.
SdfMeshMarch ==
    /\ args.fn = "sdfMesh"
    /\ ret # <<>>
    /\ ret[1].cell < CellCount(args.box)
    /\ ret' = <<[ mesh |-> sdfMeshCell(ret[1].mesh, args.sdf, args.box,
                                       CellAt(args.box, ret[1].cell), White),
                  cell |-> ret[1].cell + 1 ]>>
    /\ UNCHANGED <<args, session, engine, nextLayerId, callVars, outputs,
                   otherCalls, storeVars, handle>>

NextSdf == SdfMeshSample \/ SdfMeshMarch

SpecSdf == InitSdf /\ [][NextSdf]_vars

\* The squared length of the normal of vertex j (1..3) of a triangle run, in
\* quarter units: 4 for a unit vector.
NormalSquared(run, j) ==
    run.nrm[3 * j - 2].v * run.nrm[3 * j - 2].v
        + run.nrm[3 * j - 1].v * run.nrm[3 * j - 1].v
        + run.nrm[3 * j].v * run.nrm[3 * j].v

\* C27: every normal sdfMesh emits is a unit vector, also where the central
\* difference gradient at the surface crossing has length 0: there a unit
\* vector is substituted, never the zero vector.
C27_ZeroGradientGetsUnit ==
    ret # <<>> =>
        \A i \in 1..Len(ret[1].mesh.tris) : \A j \in 1..3 :
            /\ \A k \in 1..9 : IsFinite(ret[1].mesh.tris[i].nrm[k])
            /\ NormalSquared(ret[1].mesh.tris[i], j) = 4

\* The field at the corners of cell n is all negative or all non-negative.
UniformCell(n) ==
    LET vals == CellVals(args.sdf, args.box, CellAt(args.box, n))
    IN (\A c \in 1..8 : vals[c] < 0) \/ (\A c \in 1..8 : vals[c] >= 0)

\* C28: the march emits no triangle for a cell whose 8 corner samples are all
\* negative or all non-negative (a sample of 0 counts as outside); a sampling
\* box that lies outside the zero level set ends with zero triangles and with
\* hasCustomNormals false.
C28_UniformCellsEmitNothing ==
    /\ [][(ret # <<>> /\ ret' # ret /\ UniformCell(ret[1].cell)) =>
            ret'[1].mesh = ret[1].mesh]_vars
    /\ []((/\ ret # <<>>
            /\ ret[1].cell = CellCount(args.box)
            /\ \A n \in 0..(CellCount(args.box) - 1) : UniformCell(n))
           => /\ ret[1].mesh.tris = <<>>
              /\ ret[1].mesh.meshCount = 0
              /\ ~ret[1].mesh.hasCustomNormals)

\* A finished march of eight cells, none of them crossed by the surface
\* although some corner samples are 0, next to nothing emitted.
C28_Witness ==
    /\ ret # <<>>
    /\ CellCount(args.box) = 8
    /\ ret[1].cell = 8
    /\ \A n \in 0..7 : UniformCell(n)
    /\ \E c \in 1..8 : CellVals(args.sdf, args.box, CellAt(args.box, 0))[c] = 0
    /\ ret[1].mesh.tris = <<>>

\* ------------------------------------------------------------ noise and random

\* Whole numbers of up to 64 bits are tuples of 8 bytes, the least
\* significant first; a 32-bit value has its bit pattern in the first 4.
Wide(n) ==
    LET b(i) == IF i <= 4 THEN (n \div (256 ^ (i - 1))) % 256 ELSE 0
    IN <<b(1), b(2), b(3), b(4), b(5), b(6), b(7), b(8)>>

\* a ^ b and a | b on bytes.
RECURSIVE XorByte(_, _)
XorByte(a, b) ==
    IF a = 0 THEN b
    ELSE IF b = 0 THEN a
    ELSE ((a + b) % 2) + 2 * XorByte(a \div 2, b \div 2)

RECURSIVE OrByte(_, _)
OrByte(a, b) ==
    IF a = 0 THEN b
    ELSE IF b = 0 THEN a
    ELSE (IF a % 2 = 1 \/ b % 2 = 1 THEN 1 ELSE 0) + 2 * OrByte(a \div 2, b \div 2)

WXor(x, y) ==
    LET b(i) == XorByte(x[i], y[i])
    IN <<b(1), b(2), b(3), b(4), b(5), b(6), b(7), b(8)>>
WOr(x, y) ==
    LET b(i) == OrByte(x[i], y[i])
    IN <<b(1), b(2), b(3), b(4), b(5), b(6), b(7), b(8)>>

\* The bytes of a tuple of column sums, modulo 2^64: each column passes its
\* carry to the next.
Normalise(cols) ==
    LET s1 == cols[1]
        s2 == cols[2] + s1 \div 256
        s3 == cols[3] + s2 \div 256
        s4 == cols[4] + s3 \div 256
        s5 == cols[5] + s4 \div 256
        s6 == cols[6] + s5 \div 256
        s7 == cols[7] + s6 \div 256
        s8 == cols[8] + s7 \div 256
    IN <<s1 % 256, s2 % 256, s3 % 256, s4 % 256,
         s5 % 256, s6 % 256, s7 % 256, s8 % 256>>

WAdd(x, y) ==
    LET b(i) == x[i] + y[i]
    IN Normalise(<<b(1), b(2), b(3), b(4), b(5), b(6), b(7), b(8)>>)

RECURSIVE ColumnSum(_, _, _, _)
ColumnSum(x, y, k, i) ==
    IF i > k THEN 0 ELSE x[i] * y[k + 1 - i] + ColumnSum(x, y, k, i + 1)

WMul(x, y) ==
    LET b(k) == ColumnSum(x, y, k, 1)
    IN Normalise(<<b(1), b(2), b(3), b(4), b(5), b(6), b(7), b(8)>>)

\* ToInt32 / ToUint32: the low 32 bits.
Low32(w) == <<w[1], w[2], w[3], w[4], 0, 0, 0, 0>>

\* The sign of a 32-bit pattern read as an int32.
IsNegative(w) == w[4] >= 128

ByteAt(w, i) == IF i \in 1..8 THEN w[i] ELSE 0

\* w >>> n on 64 bits.
ShiftRight(w, n) ==
    LET q == n \div 8
        r == n % 8
        b(i) == ((ByteAt(w, i + q) \div (2 ^ r))
                    + (ByteAt(w, i + q + 1) % (2 ^ r)) * (2 ^ (8 - r))) % 256
    IN <<b(1), b(2), b(3), b(4), b(5), b(6), b(7), b(8)>>

\* h >> n on an int32: the sign bit is shifted in.
Sar(w, n) ==
    LET s == IF IsNegative(w) THEN 255 ELSE 0
    IN Low32(ShiftRight(<<w[1], w[2], w[3], w[4], s, s, s, s>>, n))

\* -w on 32 bits.
Negate32(w) ==
    Low32(WAdd(<<255 - w[1], 255 - w[2], 255 - w[3], 255 - w[4], 0, 0, 0, 0>>,
               Wide(1)))

\* Math.imul(a, b).
Imul(x, y) == Low32(WMul(x, y))

RECURSIVE BitLengthNat(_)
BitLengthNat(n) == IF n = 0 THEN 0 ELSE 1 + BitLengthNat(n \div 2)

RECURSIVE TopByte(_, _)
TopByte(w, i) ==
    IF i = 0 THEN 0 ELSE IF w[i] # 0 THEN i ELSE TopByte(w, i - 1)

BitLength(w) ==
    LET t == TopByte(w, 8)
    IN IF t = 0 THEN 0 ELSE 8 * (t - 1) + BitLengthNat(w[t])

\* The double nearest to the whole number w, ties to even: a double keeps
\* 53 significant bits.
RoundToDouble(w) ==
    LET e == BitLength(w) - 53 IN
    IF e <= 0 THEN w
    ELSE LET low == w[1] + 256 * w[2]
             rem == low % (2 ^ e)
             half == 2 ^ (e - 1)
             odd == (low \div (2 ^ e)) % 2 = 1
             up == rem > half \/ (rem = half /\ odd)
         IN Normalise(<<low - rem + (IF up THEN 2 ^ e ELSE 0), 0,
                        w[3], w[4], w[5], w[6], w[7], w[8]>>)

\* ToInt32(x * k) for an int32 x and a whole number k > 0, the product taken
\* in double precision.
DoubleProduct32(x, k) ==
    LET r == Low32(RoundToDouble(
                    WMul(IF IsNegative(x) THEN Negate32(x) ELSE x, Wide(k))))
    IN IF IsNegative(x) THEN Negate32(r) ELSE r

DefaultSeed == 42
MulberryIncrement == 1831565813
HashX == 374761393
HashY == 668265263
HashZ == 1440670961
HashMix == 1274126177

\* _seed = seed || 42
SeedOf(seed) == Wide(IF seed = 0 THEN DefaultSeed ELSE seed)

\* _mulberry32(): the new _seed and the pattern u of the value u / 2^32 it
\* returns.
mulberry32(seed) ==
    LET s == Low32(WAdd(Low32(seed), Wide(MulberryIncrement)))
        t0 == Imul(WXor(s, ShiftRight(s, 15)), WOr(Wide(1), s))
        t1 == WXor(Low32(WAdd(t0, Imul(WXor(t0, ShiftRight(t0, 7)),
                                       WOr(Wide(61), t0)))), t0)
    IN [seed |-> s, value |-> WXor(t1, ShiftRight(t1, 14))]

\* The second half of _hash2 and _hash3, from the sum h: the pattern u of the
\* value u / 2^32.
HashFinish(sum) ==
    LET h0 == Low32(sum)
        h1 == DoubleProduct32(WXor(h0, Sar(h0, 13)), HashMix)
    IN WXor(h1, Sar(h1, 16))

\* _hash2(ix, iy) under _seed = seed.  The sum is below 2^53 and exact.
hash2(seed, ix, iy) ==
    HashFinish(WAdd(WAdd(WMul(Wide(ix), Wide(HashX)),
                         WMul(Wide(iy), Wide(HashY))), seed))

\* _hash3(ix, iy, iz) under _seed = seed.
hash3(seed, ix, iy, iz) ==
    HashFinish(WAdd(WAdd(WAdd(WMul(Wide(ix), Wide(HashX)),
                              WMul(Wide(iy), Wide(HashY))),
                         WMul(Wide(iz), Wide(HashZ))), seed))

\* _lerp(a, b, t) with t = _smooth(0) = 0: a + (b - a) * 0.
LerpAtZero(a, b) == a

\* noise2D(x, y) at a lattice point (x and y whole numbers), where every
\* fraction is 0: the pattern u of the returned value u / 2^31 - 1.
noise2D(seed, x, y) ==
    LET a == LerpAtZero(hash2(seed, x, y), hash2(seed, x + 1, y))
        b == LerpAtZero(hash2(seed, x, y + 1), hash2(seed, x + 1, y + 1))
    IN LerpAtZero(a, b)

\* noise3D(x, y, z) at a lattice point.
noise3D(seed, x, y, z) ==
    LET a00 == LerpAtZero(hash3(seed, x, y, z), hash3(seed, x + 1, y, z))
        a10 == LerpAtZero(hash3(seed, x, y + 1, z), hash3(seed, x + 1, y + 1, z))
        a01 == LerpAtZero(hash3(seed, x, y, z + 1), hash3(seed, x + 1, y, z + 1))
        a11 == LerpAtZero(hash3(seed, x, y + 1, z + 1),
                          hash3(seed, x + 1, y + 1, z + 1))
        b0 == LerpAtZero(a00, a10)
        b1 == LerpAtZero(a01, a11)
    IN LerpAtZero(b0, b1)

\* Most calls of random() in one generation, and the lattice points queried.
MaxRandoms == 2
MaxLattice == 1

Seeds == {0, 1, 7}
LatticePoints == [1..3 -> (0 - 1)..MaxLattice]

InitNoise ==
    /\ InitStore(CoreSession)
    /\ args \in {[fn |-> "noise", seed |-> s, point |-> p] :
                    s \in Seeds, p \in LatticePoints}
    /\ ret = <<>>

\* The worker starts a generation: _seed = seed || 42.  before2 / before3 are
\* what the first noise2D / noise3D call at the point returned, now2 / now3
\* what the latest returned, drawn what the latest random() returned.
SeedGeneration ==
    /\ args.fn = "noise"
    /\ ret = <<>>
    /\ ret' = <<[ seed |-> SeedOf(args.seed), randoms |-> 0, drawn |-> <<>>,
                  before2 |-> <<>>, now2 |-> <<>>,
                  before3 |-> <<>>, now3 |-> <<>> ]>>
    /\ UNCHANGED <<args, session, engine, nextLayerId, callVars, outputs,
                   otherCalls, storeVars, handle>>

\* The program calls random().
CallRandom ==
    /\ args.fn = "noise"
    /\ ret # <<>>
    /\ ret[1].randoms < MaxRandoms
    /\ LET r == mulberry32(ret[1].seed)
       IN ret' = <<[ret[1] EXCEPT !.seed = r.seed, !.drawn = <<r.value>>,
                                  !.randoms = @ + 1]>>
    /\ UNCHANGED <<args, session, engine, nextLayerId, callVars, outputs,
                   otherCalls, storeVars, handle>>

\* The program calls noise2D at the point.
CallNoise2D ==
    /\ args.fn = "noise"
    /\ ret # <<>>
    /\ LET v == noise2D(ret[1].seed, args.point[1], args.point[2])
       IN ret' = <<[ret[1] EXCEPT
                        !.before2 = IF @ = <<>> THEN <<v>> ELSE @,
                        !.now2 = <<v>>]>>
    /\ UNCHANGED <<args, session, engine, nextLayerId, callVars, outputs,
                   otherCalls, storeVars, handle>>

\* The program calls noise3D at the point.
CallNoise3D ==
    /\ args.fn = "noise"
    /\ ret # <<>>
    /\ LET v == noise3D(ret[1].seed, args.point[1], args.point[2], args.point[3])
       IN ret' = <<[ret[1] EXCEPT
                        !.before3 = IF @ = <<>> THEN <<v>> ELSE @,
                        !.now3 = <<v>>]>>
    /\ UNCHANGED <<args, session, engine, nextLayerId, callVars, outputs,
                   otherCalls, storeVars, handle>>

NextNoise == SeedGeneration \/ CallRandom \/ CallNoise2D \/ CallNoise3D

SpecNoise == InitNoise /\ [][NextNoise]_vars

\* C29: within one generation noise2D and noise3D at a point return what they
\* returned at that point before, however many random() calls came between.
C29_NoiseIgnoresRandom ==
    ret # <<>> =>
        /\ ret[1].before2 # <<>> => ret[1].now2 = ret[1].before2
        /\ ret[1].before3 # <<>> => ret[1].now3 = ret[1].before3

====
